---------------------------- MODULE Spec2Model ----------------------------
(***************************************************************************)
(* MangaHub fan-out core.  Each listener is modelled as its own            *)
(* specification over the variables of this module:                        *)
(*   Spec          the stream (TCP) sync listener in service: connection   *)
(*                 handlers, registry, dispatcher, the bridge goroutine    *)
(*                 of main and the progress producers;                     *)
(*   SpecShutdown  Spec plus main's call of Server.Shutdown;               *)
(*   SpecHub       the topic hub (WebSocket chat rooms);                   *)
(*   SpecUdp       the datagram notification listener;                     *)
(*   SpecUsers     the user repository;                                    *)
(*   SpecLibrary   the library (reading progress) repository.              *)
(* A specification leaves the variables of the other components at their   *)
(* initial values.                                                         *)
(***************************************************************************)
EXTENDS Integers, Sequences, FiniteSets, TLC

(***************************************************************************)
(* Bounds of the model.                                                    *)
(***************************************************************************)
MaxConns == 2        \* stream connections the listener accepts
MaxNow == 1          \* readings of time.Now().UnixNano(): 0..MaxNow
MaxEvents == 2       \* progress updates the producers emit
QueueCap == 1        \* capacity of the two event channels (100 in the code)

MaxMembers == 2      \* WebSocket clients served by ServeWs
MaxChats == 1        \* chat messages the members send
SendCap == 1         \* capacity of a member's Send channel (256 in the code)
HistoryCap == 2      \* messages a room keeps (100 in the code)

MaxHandlers == 2     \* datagram handlers alive at a time
MaxDatagrams == 2    \* datagrams the listener receives
MaxTime == 6         \* minutes the clock runs
MaxRepoTime == 2     \* clock readings the repository calls see
MaxLiveEvents == 1   \* progress updates emitted in the termination runs

WriteDeadline == 5   \* seconds, SetWriteDeadline in broadcastUpdate
Window == 5          \* minutes, the liveness window of cleanupInactiveClients

Users == {"u1", "u2"}
Conns == 1..MaxConns
Producers == {"http", "grpc"}
Chapters == {5}
None == "none"

VARIABLES
    \* ---- stream listener (package tcp) ----
    now,               \* current reading of the wall clock (UnixNano)
    shutdown,          \* s.shutdown is closed
    listenerOpen,      \* the listening socket is open
    acceptPc,          \* accept loop: "select" | "accept" | "done"
    shutPc,            \* Shutdown(): "idle" | "closing" | "wait" | "done"
    clients,           \* s.clients: clientID -> [Conn, UserID]
    mutex,             \* s.mutex: [writer, readers]
    broadcast,         \* s.broadcast, buffered channel
    pc,                \* handleConnection position per connection
    clientID,          \* the handler's local clientID (<<>> before it is set)
    authFrame,         \* ghost: what the handshake read returned
    connClosed,        \* conn.Close() was called on the connection
    confirmed,         \* the confirmation frame was written to the connection
    dispPc,            \* handleBroadcasts: "select" | "rlock" | "write" | "done"
    update,            \* the update being dispatched
    todo,              \* keys the range loop of broadcastUpdate still visits
    lastId,            \* ghost: id of the update of the last finished pass
    sent,              \* ghost: what Conn.Write returned, per connection, in
                       \* the dispatch pass in progress
    \* ---- producers and the bridge goroutine of main ----
    progressBroadcast, \* buffered channel made in main
    bridgeItem,        \* the update the bridge goroutine holds
    nextId,            \* next event id (ghost identity of an update)
    \* ---- topic hub (package websocket) ----
    rooms,             \* h.rooms: room name -> room object
    roomObj,           \* the Room objects ever made: [Name, Clients, History]
    hubPc,             \* position of Hub.Run
    hubClient,         \* the client Run received
    hubRoom,           \* the room object Run resolved (0: none)
    hubHist,           \* sendHistoryToClient's copy of the history
    hubCount,          \* clientCount of addClientToRoom / removeClientFromRoom
    cRoom,             \* Client.Room
    swPc,              \* ServeWs: "new" | "register" | "started"
    rpPc,              \* readPump: "new" | "read" | "bcast" | "unregister" | "done"
    wpPc,              \* writePump: "new" | "run" | "done"
    wsClosed,          \* Conn.Close() was called on the member's connection
    send,              \* Client.Send: [buf, closed]
    enq,               \* ghost: every frame ever placed on the member's Send
    bc,                \* broadcastToRoom's frame per task
    nextChat,          \* ghost: number of the next chat message
    panicked,          \* the panic that stopped the process ("none": running)
    \* ---- datagram listener (package udp) ----
    uclients,          \* s.clients: addr.String() -> UDPClient
    umutex,            \* s.mutex: [writer, readers]
    unow,              \* time.Now(), in minutes
    sweepDue,          \* the ticker of the sweeper holds a tick
    buffer,            \* the buffer of the receive loop: the last datagram read
    uh,                \* the handler goroutines
    nDatagrams,        \* datagrams received so far
    uSend,             \* the sender in progress: [pc, kind, userID, todo]
    usent,             \* ghost: what WriteToUDP returned, per address, in the
                       \* send in progress
    \* ---- repositories (SQLite tables) ----
    users,             \* table users: rows [ID, Username, Email]
    uret,              \* the last Create: [user, err]
    library,           \* table user_progress: <<user_id, manga_id>> -> row
    rnow,              \* time.Now() of the repository calls
    lret               \* the last library call: [op, pair, err, row]

lsnVars == <<shutdown, listenerOpen, acceptPc, shutPc>>
regVars == <<clients, mutex>>
connVars == <<pc, clientID, authFrame, connClosed, confirmed>>
dispVars == <<dispPc, update, todo, lastId, sent>>
prodVars == <<progressBroadcast, bridgeItem, nextId>>
tcpVars == <<now, lsnVars, regVars, broadcast, connVars, dispVars, prodVars>>

topicVars == <<rooms, roomObj>>
runVars == <<hubPc, hubClient, hubRoom, hubHist, hubCount>>
memberVars == <<cRoom, swPc, rpPc, wpPc, wsClosed>>
hubVars == <<topicVars, runVars, memberVars, send, enq, bc, nextChat, panicked>>

udpVars == <<uclients, umutex, unow, sweepDue, buffer, uh, nDatagrams, uSend,
             usent>>

repoVars == <<users, uret, library, rnow, lret>>

vars == <<tcpVars, hubVars, udpVars, repoVars>>

(***************************************************************************)
(* Helpers of the stream listener.                                         *)
(***************************************************************************)
\* fmt.Sprintf("%s_%d", userID, nano): the decimal suffix holds no '_', so the
\* string determines the pair and the pair the string.
ClientID(userID, nano) == <<userID, nano>>

NoFrame == [got |-> "none", valid |-> FALSE, user_id |-> ""]
\* ReadBytes returned an error: deadline, EOF or closed connection
ErrFrame == [got |-> "error", valid |-> FALSE, user_id |-> ""]

\* The handshake frames a peer can send: not JSON, JSON without (or with an
\* empty) user_id, JSON with a user_id.
AuthFrames ==
    {[got |-> "frame", valid |-> FALSE, user_id |-> ""]} \cup
    {[got |-> "frame", valid |-> TRUE, user_id |-> u] : u \in Users \cup {""}}

\* json.Unmarshal of the handshake frame into struct{UserID string}.
Unmarshal(frame) ==
    [err |-> ~frame.valid,
     UserID |-> IF frame.valid THEN frame.user_id ELSE ""]

\* A handshake check that forgets the empty user_id.
AuthRejectedNoEmptyCheck(frame) == Unmarshal(frame).err

\* handleConnection's checks on the handshake frame.
AuthRejected(frame) ==
    \/ Unmarshal(frame).err
    \/ Unmarshal(frame).UserID = ""

LockFree == mutex.writer = None /\ mutex.readers = {}
RLockFree == mutex.writer = None

MapPut(m, k, v) == [x \in DOMAIN m \cup {k} |-> IF x = k THEN v ELSE m[x]]
MapDel(m, k) == [x \in DOMAIN m \ {k} |-> m[x]]

RegisteredConns == {clients[k].Conn : k \in DOMAIN clients}

NoUpdate == [id |-> 0, UserID |-> "", MangaID |-> "", Chapter |-> 0]

\* Non-blocking send of select { case ch <- v: default: }.
TrySend(ch, v) == IF Len(ch) < QueueCap THEN Append(ch, v) ELSE ch

\* A match that forgets the account.
MatchesAny(client, upd) == TRUE

\* client.UserID == update.UserID in broadcastUpdate.
Matches(client, upd) == client.UserID = upd.UserID

\* The range loop ended by the first write error.
AbortOnWriteError(rest) == {}

\* The keys the range loop still visits after a write returned an error:
\* the error is logged and the loop goes on.
AfterWriteError(rest) == rest

\* What Conn.Write can return: a closed connection fails at once; an open one
\* succeeds, fails (peer reset) or stalls until the write deadline.
WriteOutcomes(c) ==
    IF connClosed[c] THEN {"fail"} ELSE {"ok", "fail", "timeout"}

(***************************************************************************)
(* Initial state: after NewServer and Start, main's channel made, NewHub   *)
(* and go chatHub.Run(), the datagram listener started.                    *)
(***************************************************************************)
Init ==
    /\ now = 0
    /\ shutdown = FALSE
    /\ listenerOpen = TRUE
    /\ acceptPc = "select"
    /\ shutPc = "idle"
    /\ clients = <<>>
    /\ mutex = [writer |-> None, readers |-> {}]
    /\ broadcast = <<>>
    /\ pc = [c \in Conns |-> "new"]
    /\ clientID = [c \in Conns |-> <<>>]
    /\ authFrame = [c \in Conns |-> NoFrame]
    /\ connClosed = [c \in Conns |-> FALSE]
    /\ confirmed = [c \in Conns |-> FALSE]
    /\ dispPc = "select"
    /\ update = NoUpdate
    /\ todo = {}
    /\ lastId = 0
    /\ sent = [c \in Conns |-> <<>>]
    /\ progressBroadcast = <<>>
    /\ bridgeItem = NoUpdate
    /\ nextId = 1
    /\ rooms = <<>>
    /\ roomObj = <<>>
    /\ hubPc = "idle"
    /\ hubClient = 0
    /\ hubRoom = 0
    /\ hubHist = <<>>
    /\ hubCount = 0
    /\ cRoom = [c \in 1..MaxMembers |-> ""]
    /\ swPc = [c \in 1..MaxMembers |-> "new"]
    /\ rpPc = [c \in 1..MaxMembers |-> "new"]
    /\ wpPc = [c \in 1..MaxMembers |-> "new"]
    /\ wsClosed = [c \in 1..MaxMembers |-> FALSE]
    /\ send = [c \in 1..MaxMembers |-> [buf |-> <<>>, closed |-> FALSE]]
    /\ enq = [c \in 1..MaxMembers |-> <<>>]
    /\ bc = [t \in 0..MaxMembers |->
                [pc |-> "idle", name |-> "", room |-> 0,
                 msg |-> [Type |-> "", Room |-> "", Username |-> "", Text |-> "",
                          id |-> 0, obj |-> 0, messages |-> <<>>],
                 iter |-> {}, cur |-> 0]]
    /\ nextChat = 1
    /\ panicked = "none"
    /\ uclients = <<>>
    /\ umutex = [writer |-> None, readers |-> {}]
    /\ unow = 0
    /\ sweepDue = FALSE
    /\ buffer = [valid |-> FALSE, type |-> "none", hasUser |-> FALSE,
                 user_id |-> "",
                 preferences |-> [given |-> FALSE, chapter_releases |-> "missing",
                                  system_updates |-> "missing"]]
    /\ uh = [h \in 1..MaxHandlers |->
                [pc |-> "free", addr |-> "",
                 own |-> [valid |-> FALSE, type |-> "none", hasUser |-> FALSE,
                          user_id |-> "",
                          preferences |-> [given |-> FALSE,
                                           chapter_releases |-> "missing",
                                           system_updates |-> "missing"]],
                 msg |-> [valid |-> FALSE, type |-> "none", hasUser |-> FALSE,
                          user_id |-> "",
                          preferences |-> [given |-> FALSE,
                                           chapter_releases |-> "missing",
                                           system_updates |-> "missing"]],
                 reply |-> [status |-> "",
                            preferences |-> [k \in {"chapter_releases",
                                                     "system_updates"} |-> "unset"]]]]
    /\ nDatagrams = 0
    /\ uSend = [pc |-> "idle", kind |-> "", userID |-> "", todo |-> {}]
    /\ usent = [a \in {"a1", "a2"} |-> <<>>]
    /\ users = {}
    /\ uret = [user |-> [ID |-> "", Username |-> "", Email |-> ""], err |-> "nil"]
    /\ library = <<>>
    /\ rnow = 0
    /\ lret = [op |-> "", pair |-> <<"", "">>, err |-> "nil",
               row |-> [CurrentChapter |-> 0, Status |-> "", Rating |-> 0,
                        UpdatedAt |-> 0, StartedAt |-> 0]]

(***************************************************************************)
(* The clock.  Only whether two handlers read the same nanosecond matters, *)
(* so the clock moves on only past a reading some handler has used.        *)
(***************************************************************************)
Tick ==
    /\ now < MaxNow
    /\ \E c \in Conns : clientID[c] # <<>> /\ clientID[c][2] = now
    /\ now' = now + 1
    /\ UNCHANGED <<repoVars, udpVars, hubVars, lsnVars, regVars, broadcast, connVars, dispVars, prodVars>>

(***************************************************************************)
(* Producers: Handler.UpdateProgress (HTTP) and Server.UpdateProgress      *)
(* (gRPC), from the point where the repository update has succeeded.       *)
(***************************************************************************)
\* A plain channel send in place of the select with a default.
UpdateProgressBlocking(p, userID, chapter) ==
    /\ nextId <= MaxEvents
    /\ Len(progressBroadcast) < QueueCap
    /\ progressBroadcast' =
          Append(progressBroadcast,
                 [id |-> nextId, UserID |-> userID, MangaID |-> "m1",
                  Chapter |-> chapter])
    /\ nextId' = nextId + 1
    /\ UNCHANGED <<repoVars, udpVars, hubVars, now, lsnVars, regVars, broadcast, connVars, dispVars,
                   bridgeItem>>

UpdateProgress(p, userID, chapter) ==
    /\ nextId <= MaxEvents
    /\ progressBroadcast' =
          TrySend(progressBroadcast,
                  [id |-> nextId, UserID |-> userID, MangaID |-> "m1",
                   Chapter |-> chapter])
    /\ nextId' = nextId + 1
    /\ UNCHANGED <<repoVars, udpVars, hubVars, now, lsnVars, regVars, broadcast, connVars, dispVars,
                   bridgeItem>>

\* main: for update := range progressBroadcast { tcp broadcast channel <- update }
BridgeTake ==
    /\ bridgeItem = NoUpdate
    /\ progressBroadcast # <<>>
    /\ bridgeItem' = Head(progressBroadcast)
    /\ progressBroadcast' = Tail(progressBroadcast)
    /\ UNCHANGED <<repoVars, udpVars, hubVars, now, lsnVars, regVars, broadcast, connVars, dispVars,
                   nextId>>

\* a bridge that forwards the update it holds and holds it still
BridgePutAgain ==
    /\ bridgeItem # NoUpdate
    /\ Len(broadcast) < QueueCap
    /\ broadcast' = Append(broadcast, bridgeItem)
    /\ UNCHANGED <<repoVars, udpVars, hubVars, now, lsnVars, regVars, connVars, dispVars,
                   progressBroadcast, nextId, bridgeItem>>

BridgePut ==
    /\ bridgeItem # NoUpdate
    /\ Len(broadcast) < QueueCap
    /\ broadcast' = Append(broadcast, bridgeItem)
    /\ bridgeItem' = NoUpdate
    /\ UNCHANGED <<repoVars, udpVars, hubVars, now, lsnVars, regVars, connVars, dispVars,
                   progressBroadcast, nextId>>

(***************************************************************************)
(* Start's accept loop and Shutdown.                                       *)
(***************************************************************************)
\* select { case <-s.shutdown: listener.Close(); return; default: Accept }
AcceptSelect ==
    /\ acceptPc = "select"
    /\ IF shutdown
       THEN listenerOpen' = FALSE /\ acceptPc' = "done"
       ELSE listenerOpen' = listenerOpen /\ acceptPc' = "accept"
    /\ UNCHANGED <<repoVars, udpVars, hubVars, now, shutdown, shutPc, regVars, broadcast, connVars,
                   dispVars, prodVars>>

\* listener.Accept() returns a connection: wg.Add(1); go s.handleConnection(conn).
\* Connections are numbered in the order they are accepted.
Accept(c) ==
    /\ acceptPc = "accept"
    /\ listenerOpen
    /\ pc[c] = "new"
    /\ \A d \in Conns : d < c => pc[d] # "new"
    /\ pc' = [pc EXCEPT ![c] = "auth"]
    /\ acceptPc' = "select"
    /\ UNCHANGED <<repoVars, udpVars, hubVars, now, shutdown, listenerOpen, shutPc, regVars, broadcast,
                   clientID, authFrame, connClosed, confirmed, dispVars,
                   prodVars>>

\* listener.Accept() returns an error: return when shut down, else log, continue
AcceptError ==
    /\ acceptPc = "accept"
    /\ acceptPc' = IF shutdown THEN "done" ELSE "select"
    /\ UNCHANGED <<repoVars, udpVars, hubVars, now, shutdown, listenerOpen, shutPc, regVars, broadcast,
                   connVars, dispVars, prodVars>>

\* Shutdown: close(s.shutdown)
ShutdownBegin ==
    /\ shutPc = "idle"
    /\ shutdown' = TRUE
    /\ shutPc' = "closing"
    /\ UNCHANGED <<repoVars, udpVars, hubVars, now, listenerOpen, acceptPc, regVars, broadcast, connVars,
                   dispVars, prodVars>>

\* Shutdown: under s.mutex.Lock, close every registered connection
ShutdownCloseConns ==
    /\ shutPc = "closing"
    /\ LockFree
    /\ connClosed' = [c \in Conns |-> connClosed[c] \/ c \in RegisteredConns]
    /\ shutPc' = "wait"
    /\ UNCHANGED <<repoVars, udpVars, hubVars, now, shutdown, listenerOpen, acceptPc, regVars, broadcast,
                   pc, clientID, authFrame, confirmed, dispVars, prodVars>>

\* Shutdown: s.wg.Wait() returns once the dispatcher and every handler ended
ShutdownWait ==
    /\ shutPc = "wait"
    /\ dispPc = "done"
    /\ \A c \in Conns : pc[c] \in {"new", "done"}
    /\ shutPc' = "done"
    /\ UNCHANGED <<repoVars, udpVars, hubVars, now, shutdown, listenerOpen, acceptPc, regVars, broadcast,
                   connVars, dispVars, prodVars>>

(***************************************************************************)
(* handleConnection, one handler task per accepted connection.             *)
(***************************************************************************)
\* return: the deferred conn.Close() and wg.Done() run
HandlerReturn(c) ==
    /\ pc' = [pc EXCEPT ![c] = "done"]
    /\ connClosed' = [connClosed EXCEPT ![c] = TRUE]

\* reader.ReadBytes fails: the 30 s deadline passed, or the peer or Shutdown
\* closed the connection
ReadAuthError(c) ==
    /\ pc[c] = "auth"
    /\ authFrame' = [authFrame EXCEPT ![c] = ErrFrame]
    /\ HandlerReturn(c)
    /\ UNCHANGED <<repoVars, udpVars, hubVars, now, lsnVars, regVars, broadcast, clientID, confirmed,
                   dispVars, prodVars>>

\* the first frame arrives: parse it, check user_id, compute clientID
ReadAuth(c, frame) ==
    /\ pc[c] = "auth"
    /\ ~connClosed[c]
    /\ authFrame' = [authFrame EXCEPT ![c] = frame]
    /\ IF AuthRejected(frame)
       THEN /\ HandlerReturn(c)
            /\ UNCHANGED clientID
       ELSE /\ clientID' = [clientID EXCEPT
                              ![c] = ClientID(Unmarshal(frame).UserID, now)]
            /\ pc' = [pc EXCEPT ![c] = "register"]
            /\ UNCHANGED connClosed
    /\ UNCHANGED <<repoVars, udpVars, hubVars, now, lsnVars, regVars, broadcast, confirmed, dispVars,
                   prodVars>>

\* s.mutex.Lock(); s.clients[clientID] = client; s.mutex.Unlock(); then
\* conn.Write of the confirmation frame (its result is not looked at)
Register(c) ==
    /\ pc[c] = "register"
    /\ LockFree
    /\ clients' = MapPut(clients, clientID[c],
                         [Conn |-> c, UserID |-> clientID[c][1]])
    /\ confirmed' = [confirmed EXCEPT ![c] = TRUE]
    /\ pc' = [pc EXCEPT ![c] = "select"]
    /\ UNCHANGED <<repoVars, udpVars, hubVars, now, lsnVars, mutex, broadcast, clientID, authFrame,
                   connClosed, dispVars, prodVars>>

\* a loop head that does not look at s.shutdown
LoopSelectNoShutdown(c) ==
    /\ pc[c] = "select"
    /\ pc' = [pc EXCEPT ![c] = "read"]
    /\ UNCHANGED <<repoVars, udpVars, hubVars, now, lsnVars, regVars, broadcast, clientID, authFrame,
                   connClosed, confirmed, dispVars, prodVars>>

\* select { case <-s.shutdown: return; default: read } at the loop head
LoopSelect(c) ==
    /\ pc[c] = "select"
    /\ IF shutdown
       THEN HandlerReturn(c)
       ELSE pc' = [pc EXCEPT ![c] = "read"] /\ UNCHANGED connClosed
    /\ UNCHANGED <<repoVars, udpVars, hubVars, now, lsnVars, regVars, broadcast, clientID, authFrame,
                   confirmed, dispVars, prodVars>>

\* a frame arrives: a heartbeat is answered with heartbeat_ack (the write's
\* result is not looked at), any other frame and invalid JSON are ignored
ReadFrame(c, type) ==
    /\ pc[c] = "read"
    /\ ~connClosed[c]
    /\ pc' = [pc EXCEPT ![c] = "select"]
    /\ UNCHANGED <<repoVars, udpVars, hubVars, now, lsnVars, regVars, broadcast, clientID, authFrame,
                   connClosed, confirmed, dispVars, prodVars>>

\* reader.ReadBytes fails (peer gone, 5 min idle, connection closed): goto cleanup
ReadError(c) ==
    /\ pc[c] = "read"
    /\ pc' = [pc EXCEPT ![c] = "cleanup"]
    /\ UNCHANGED <<repoVars, udpVars, hubVars, now, lsnVars, regVars, broadcast, clientID, authFrame,
                   connClosed, confirmed, dispVars, prodVars>>

\* cleanup: s.mutex.Lock(); delete(s.clients, clientID); s.mutex.Unlock(); return
Cleanup(c) ==
    /\ pc[c] = "cleanup"
    /\ LockFree
    /\ clients' = MapDel(clients, clientID[c])
    /\ HandlerReturn(c)
    /\ UNCHANGED <<repoVars, udpVars, hubVars, now, lsnVars, mutex, broadcast, clientID, authFrame,
                   confirmed, dispVars, prodVars>>

(***************************************************************************)
(* handleBroadcasts and broadcastUpdate: the dispatcher task.              *)
(***************************************************************************)
\* select: case <-s.shutdown: return
DispShutdown ==
    /\ dispPc = "select"
    /\ shutdown
    /\ dispPc' = "done"
    /\ UNCHANGED <<repoVars, udpVars, hubVars, now, lsnVars, regVars, broadcast, connVars, update, todo,
                   lastId, sent, prodVars>>

\* select: case update := <-s.broadcast
DispReceive ==
    /\ dispPc = "select"
    /\ broadcast # <<>>
    /\ update' = Head(broadcast)
    /\ broadcast' = Tail(broadcast)
    /\ dispPc' = "rlock"
    /\ UNCHANGED <<repoVars, udpVars, hubVars, now, lsnVars, regVars, connVars, todo, lastId, sent,
                   prodVars>>

\* broadcastUpdate: s.mutex.RLock(); marshal the frame; start the range loop.
\* The lock is released by the deferred RUnlock only.
BeginPass ==
    /\ dispPc = "rlock"
    /\ RLockFree
    /\ mutex' = [mutex EXCEPT !.readers = @ \cup {"disp"}]
    /\ todo' = {k \in DOMAIN clients : Matches(clients[k], update)}
    /\ dispPc' = "write"
    /\ UNCHANGED <<repoVars, udpVars, hubVars, now, lsnVars, clients, broadcast, connVars, update, lastId,
                   sent, prodVars>>

\* a range loop that deletes the entry of a connection whose write failed
WriteOneEvict(k, outcome) ==
    /\ dispPc = "write"
    /\ k \in todo
    /\ outcome \in WriteOutcomes(clients[k].Conn)
    /\ sent' = [sent EXCEPT ![clients[k].Conn] = Append(@, outcome)]
    /\ todo' = todo \ {k}
    /\ clients' = IF outcome = "ok" THEN clients ELSE MapDel(clients, k)
    /\ UNCHANGED <<repoVars, udpVars, hubVars, now, lsnVars, mutex, broadcast, connVars, dispPc, update,
                   lastId, prodVars>>

\* one iteration of the range loop on a matching client: SetWriteDeadline(5 s),
\* Conn.Write(data); an error is logged and counted
WriteOne(k, outcome) ==
    /\ dispPc = "write"
    /\ k \in todo
    /\ outcome \in WriteOutcomes(clients[k].Conn)
    /\ sent' = [sent EXCEPT ![clients[k].Conn] = Append(@, outcome)]
    /\ todo' = IF outcome = "ok" THEN todo \ {k} ELSE AfterWriteError(todo \ {k})
    /\ UNCHANGED <<repoVars, udpVars, hubVars, now, lsnVars, regVars, broadcast, connVars, dispPc, update,
                   lastId, prodVars>>

\* the range loop is over: log, return, deferred s.mutex.RUnlock()
EndPass ==
    /\ dispPc = "write"
    /\ todo = {}
    /\ mutex' = [mutex EXCEPT !.readers = @ \ {"disp"}]
    /\ dispPc' = "select"
    /\ lastId' = update.id
    /\ update' = NoUpdate
    /\ sent' = [c \in Conns |-> <<>>]
    /\ UNCHANGED <<repoVars, udpVars, hubVars, now, lsnVars, clients, broadcast, connVars, todo, prodVars>>

(***************************************************************************)
(* Specifications of the stream listener.  Spec is the listener in         *)
(* service; SpecShutdown adds main's call of Shutdown on SIGINT/SIGTERM.   *)
(***************************************************************************)
Next ==
    \/ Tick
    \/ \E p \in Producers, u \in Users, ch \in Chapters : UpdateProgress(p, u, ch)
    \/ BridgeTake
    \/ BridgePut
    \/ AcceptSelect
    \/ \E c \in Conns : Accept(c)
    \/ AcceptError
    \/ \E c \in Conns : ReadAuthError(c)
    \/ \E c \in Conns, f \in AuthFrames : ReadAuth(c, f)
    \/ \E c \in Conns : Register(c)
    \/ \E c \in Conns : LoopSelect(c)
    \/ \E c \in Conns, t \in {"heartbeat", "other"} : ReadFrame(c, t)
    \/ \E c \in Conns : ReadError(c)
    \/ \E c \in Conns : Cleanup(c)
    \/ DispReceive
    \/ BeginPass
    \/ \E u \in Users, n \in 0..MaxNow, o \in {"ok", "fail", "timeout"} :
          WriteOne(ClientID(u, n), o)
    \/ EndPass

Spec == Init /\ [][Next]_vars

NextShutdown ==
    \/ Next
    \/ ShutdownBegin
    \/ ShutdownCloseConns
    \/ ShutdownWait
    \/ DispShutdown

SpecShutdown == Init /\ [][NextShutdown]_vars

(***************************************************************************)
(* Properties of the stream listener.                                      *)
(***************************************************************************)
\* the connections whose registry entry matches the update being dispatched
MatchingConns ==
    {clients[k].Conn : k \in {x \in DOMAIN clients : clients[x].UserID = update.UserID}}

\* the connections the pass in progress has called Conn.Write on
WrittenConns == {c \in Conns : sent[c] # <<>>}

\* the longest the writes of the pass so far can have taken: only a stalled
\* write takes time, and it ends at the write deadline
PassTime == WriteDeadline * Cardinality({c \in Conns : sent[c] = <<"timeout">>})

\* the ids of the events on their way to the connections, the one nearest to
\* the connections first: the event of the pass in progress, the dispatcher's
\* queue, the event the bridge holds, the producers' queue
PipelineIds ==
    (IF update = NoUpdate THEN <<>> ELSE <<update.id>>)
    \o [i \in 1..Len(broadcast) |-> broadcast[i].id]
    \o (IF bridgeItem = NoUpdate THEN <<>> ELSE <<bridgeItem.id>>)
    \o [i \in 1..Len(progressBroadcast) |-> progressBroadcast[i].id]

\* C1: no network write happens while the registry lock is held: whenever the
\* dispatcher calls Conn.Write, nobody (the dispatcher included) holds s.mutex.
C1_NoWriteUnderLock ==
    [][(\E c \in Conns : Len(sent'[c]) > Len(sent[c]))
          => mutex.readers = {} /\ mutex.writer = None]_vars

\* C2: the enqueue of a progress producer never blocks: while a producer has an
\* update to emit, the enqueue step can be taken whatever the queue holds; on a
\* full queue that step leaves the queue as it is (the event is dropped), on a
\* queue with room it appends the event; either way the producer moves on.
C2_EnqueueNeverBlocks ==
    nextId <= MaxEvents =>
        \A p \in Producers, u \in Users, ch \in Chapters :
            ENABLED ( /\ UpdateProgress(p, u, ch)
                      /\ nextId' = nextId + 1
                      /\ IF Len(progressBroadcast) = QueueCap
                         THEN progressBroadcast' = progressBroadcast
                         ELSE /\ Len(progressBroadcast') = Len(progressBroadcast) + 1
                              /\ progressBroadcast'[Len(progressBroadcast')].id = nextId )

\* C2 witness: event 2 was emitted while event 1 filled the queue, and was
\* dropped: it is nowhere in the pipeline, event 1 still heads the queue.
C2_Witness ==
    /\ nextId = 3
    /\ Len(progressBroadcast) = QueueCap
    /\ progressBroadcast[1].id = 1
    /\ bridgeItem = NoUpdate
    /\ broadcast = <<>>
    /\ update = NoUpdate
    /\ lastId = 0

\* C3: in the pass of one dispatched event, Conn.Write is called at most once
\* per connection and only on connections registered under the event's
\* account; when the range loop is over it has been called exactly once on
\* every such connection; and no event is dispatched in two passes (the ids of
\* the dispatched events grow strictly).
C3_ExactlyOncePerMatch ==
    /\ \A c \in Conns : Len(sent[c]) <= 1
    /\ WrittenConns \subseteq MatchingConns
    /\ (dispPc = "write" /\ todo = {}) => WrittenConns = MatchingConns
    /\ update # NoUpdate => update.id > lastId

\* C3 witness: a pass is over with two connections of different accounts
\* registered: the matching one was written once, the other not at all.
C3_Witness ==
    /\ dispPc = "write"
    /\ todo = {}
    /\ \E c, d \in RegisteredConns :
          /\ c \in MatchingConns /\ Len(sent[c]) = 1
          /\ d \notin MatchingConns /\ sent[d] = <<>>

\* C4: a failed or stalled write does not end the pass: during a pass every
\* matching connection has been written or is still to be visited, also after
\* a write has failed or run into the deadline; the pass can always take its
\* next step; and the writes of a pass take at most one write deadline per
\* matching connection.
C4_FailureDoesNotStopPass ==
    dispPc = "write" =>
        /\ \A k \in DOMAIN clients :
              clients[k].UserID = update.UserID =>
                  k \in todo \/ sent[clients[k].Conn] # <<>>
        /\ todo # {} => \E k \in todo : ENABLED WriteOne(k, "fail")
        /\ todo = {} => ENABLED EndPass
        /\ PassTime <= WriteDeadline * Cardinality(MatchingConns)

\* C4 witness: a pass is over in which one write failed or stalled and another
\* matching connection was written successfully after it or before it.
C4_Witness ==
    /\ dispPc = "write"
    /\ todo = {}
    /\ \E c, d \in Conns :
          /\ sent[c] \in {<<"fail">>, <<"timeout">>}
          /\ sent[d] = <<"ok">>

\* C5: any two connections that completed the handshake have distinct
\* registry keys.
C5_DistinctKeys ==
    \A c, d \in Conns :
        (c # d /\ clientID[c] # <<>> /\ clientID[d] # <<>>)
            => clientID[c] # clientID[d]

\* C6: registration only after a well-formed handshake: a connection whose
\* handshake read failed (30 s deadline, closed), or whose first frame was not
\* JSON or carried no or an empty user_id, is closed, its handler has ended, it
\* has no key, no registry entry and got no confirmation; and a connection that
\* is registered or confirmed sent a valid frame with a non-empty user_id.
C6_RegisterOnlyAfterHandshake ==
    \A c \in Conns :
        /\ ( \/ authFrame[c].got = "error"
             \/ (authFrame[c].got = "frame" /\ ~authFrame[c].valid)
             \/ (authFrame[c].got = "frame" /\ authFrame[c].user_id = "") )
              => /\ pc[c] = "done"
                 /\ connClosed[c]
                 /\ clientID[c] = <<>>
                 /\ c \notin RegisteredConns
                 /\ ~confirmed[c]
        /\ (c \in RegisteredConns \/ confirmed[c] \/ clientID[c] # <<>>)
              => /\ authFrame[c].got = "frame"
                 /\ authFrame[c].valid
                 /\ authFrame[c].user_id \in Users
        /\ pc[c] \in {"new", "auth"} => c \notin RegisteredConns /\ ~confirmed[c]

\* C6 witness: one connection was turned away for an empty user_id while
\* another one is registered.
C6_Witness ==
    \E c, d \in Conns :
        /\ authFrame[c].got = "frame" /\ authFrame[c].valid
        /\ authFrame[c].user_id = ""
        /\ pc[c] = "done"
        /\ d \in RegisteredConns

\* C7: whenever the handler of a connection has ended, the registry holds no
\* entry of that connection.
C7_EndedHandlerNotRegistered ==
    \A c \in Conns : pc[c] = "done" => c \notin RegisteredConns

\* C8: when a dispatch pass ends in which the write to a connection failed or
\* stalled, the registry no longer holds that connection.
C8_FailedWriteRemoved ==
    [][(dispPc = "write" /\ dispPc' = "select")
          => \A c \in Conns :
                (sent[c] # <<>> /\ sent[c][1] # "ok")
                    => c \notin {clients'[k].Conn : k \in DOMAIN clients'}]_vars

C25_ShutdownCloses ==
    [][/\ shutdown =>
             {clients'[k].Conn : k \in DOMAIN clients'} \subseteq RegisteredConns
       /\ shutPc' = "done" =>
             /\ ~listenerOpen'
             /\ \A k \in DOMAIN clients' : connClosed'[clients'[k].Conn]]_vars

(***************************************************************************)
(* The topic hub (package websocket): rooms, members, the Run loop, the    *)
(* receive and send loops of the members and broadcastToRoom.              *)
(***************************************************************************)
Members == 1..MaxMembers
HubTask == 0                       \* the goroutine of Hub.Run
Tasks == {HubTask} \cup Members    \* task c > 0 is the readPump of member c
RoomNames == {"general", "manga"}
NoPanic == "none"

\* the username of the upgrade request (a query parameter or a token claim)
Username(c) == IF c = 1 THEN "alice" ELSE "bob"

\* A frame on a member's Send channel or in a history.  id and obj are ghost
\* fields: the number of the chat message and the room object the broadcast
\* resolved.  Time is left out.
Frame(type, room, username, text, id, messages) ==
    [Type |-> type, Room |-> room, Username |-> username, Text |-> text,
     id |-> id, obj |-> 0, messages |-> messages]

NoMsg == Frame("", "", "", "", 0, <<>>)

\* what a peer can send: invalid JSON, or a Message whose type, room and
\* username the peer chose
Payloads ==
    {[ok |-> FALSE, Type |-> "", Room |-> "", Username |-> "", Text |-> ""]} \cup
    {[ok |-> TRUE, Type |-> ty, Room |-> r, Username |-> u, Text |-> "hi"] :
        ty \in {"chat", "system"}, r \in {"general", "other"},
        u \in {"alice", "mallory"}}

\* a receive loop that keeps the identity fields of the payload
StampTrustsPayload(c, room, payload, id) ==
    Frame(payload.Type, payload.Room, payload.Username, payload.Text, id, <<>>)

\* readPump: msg.Username, msg.Room and msg.Type are set by the server
Stamp(c, room, payload, id) ==
    Frame("chat", room, Username(c), payload.Text, id, <<>>)

\* the join and leave notices: Sprintf("%s joined the room", Username) and
\* Sprintf("%s left the room", Username); Text holds what follows the name
SystemMsg(c, room, text) == Frame("system", room, Username(c), text, 0, <<>>)

\* sendHistoryToClient: {"type": "history", "messages": history}
HistoryFrame(history) == Frame("history", "", "", "", 0, history)

\* a room that takes over the history of the room object made before it
NewRoomKeepsHistory(name, objs) ==
    [Name |-> name, Clients |-> {},
     History |-> IF objs = <<>> THEN <<>> ELSE objs[Len(objs)].History]

\* addClientToRoom: &Room{Name, Clients: make(map), History: make([]Message, 0, 100)}
NewRoom(name, objs) == [Name |-> name, Clients |-> {}, History |-> <<>>]

\* a history that is never trimmed
AppendHistoryUnbounded(history, msg) == Append(history, msg)

\* broadcastToRoom: append, then drop the oldest message above the cap
AppendHistory(history, msg) ==
    LET h == Append(history, msg)
    IN  IF Len(h) > HistoryCap THEN Tail(h) ELSE h

NewChan == [buf |-> <<>>, closed |-> FALSE]
IdleBroadcast == [pc |-> "idle", name |-> "", room |-> 0, msg |-> NoMsg,
                  iter |-> {}, cur |-> 0]
\* a broadcast that always goes to the room "general"
StartBroadcastToGeneral(name, msg) ==
    [pc |-> "lookup", name |-> "general", room |-> 0, msg |-> msg, iter |-> {},
     cur |-> 0]

StartBroadcast(name, msg) ==
    [pc |-> "lookup", name |-> name, room |-> 0, msg |-> msg, iter |-> {},
     cur |-> 0]

Running == panicked = NoPanic

\* h.mu is write-held by Run from the Lock of addClientToRoom to its Unlock
HmuWriter == hubPc = "addInsert"

\* the tasks holding room.mu of a room object in read mode: the broadcasters
\* between room.mu.RLock() and the deferred RUnlock
RoomReaders(r) == {t \in Tasks : bc[t].room = r /\ bc[t].pc \in {"iter", "close"}}

\* a task has finished (or skipped) broadcastToRoom and goes on in its caller
Return(t) ==
    IF t = HubTask
    THEN /\ hubPc' = IF hubPc = "addBroadcast" THEN "idle" ELSE "remCheck"
         /\ hubClient' = IF hubPc = "addBroadcast" THEN 0 ELSE hubClient
         /\ hubRoom' = 0
         /\ hubCount' = IF hubPc = "addBroadcast" THEN 0 ELSE hubCount
         /\ UNCHANGED rpPc
    ELSE /\ rpPc' = [rpPc EXCEPT ![t] = "read"]
         /\ UNCHANGED <<hubPc, hubClient, hubRoom, hubCount>>

\* ServeWs: build the Client (Send: make(chan []byte, 256)) and block on
\* hub.register <- client.  Clients are numbered in the order they are served;
\* room names are interchangeable, so the first client asks for "general".
ServeWs(c, room) ==
    /\ Running
    /\ swPc[c] = "new"
    /\ \A d \in Members : d < c => swPc[d] # "new"
    /\ c = 1 => room = "general"
    /\ cRoom' = [cRoom EXCEPT ![c] = room]
    /\ swPc' = [swPc EXCEPT ![c] = "register"]
    /\ UNCHANGED <<repoVars, udpVars, tcpVars, enq, topicVars, runVars, rpPc, wpPc, wsClosed, send, bc,
                   nextChat, panicked>>

\* Run: case client := <-h.register.  ServeWs goes on: go writePump, go readPump
RunRegister(c) ==
    /\ Running
    /\ hubPc = "idle"
    /\ swPc[c] = "register"
    /\ swPc' = [swPc EXCEPT ![c] = "started"]
    /\ rpPc' = [rpPc EXCEPT ![c] = "read"]
    /\ wpPc' = [wpPc EXCEPT ![c] = "run"]
    /\ hubPc' = "addLookup"
    /\ hubClient' = c
    /\ UNCHANGED <<repoVars, udpVars, tcpVars, enq, topicVars, hubRoom, hubHist, hubCount, cRoom,
                   wsClosed, send, bc, nextChat, panicked>>

\* addClientToRoom: h.mu.Lock(); get the room or create it
AddLookup ==
    /\ Running
    /\ hubPc = "addLookup"
    /\ IF cRoom[hubClient] \in DOMAIN rooms
       THEN /\ hubRoom' = rooms[cRoom[hubClient]]
            /\ UNCHANGED topicVars
       ELSE /\ roomObj' = Append(roomObj, NewRoom(cRoom[hubClient], roomObj))
            /\ rooms' = MapPut(rooms, cRoom[hubClient], Len(roomObj) + 1)
            /\ hubRoom' = Len(roomObj) + 1
    /\ hubPc' = "addInsert"
    /\ UNCHANGED <<repoVars, udpVars, tcpVars, enq, hubClient, hubHist, hubCount, memberVars, send, bc,
                   nextChat, panicked>>

\* addClientToRoom: room.mu.Lock(); room.Clients[client] = true;
\* room.mu.Unlock(); h.mu.Unlock()
AddInsert ==
    /\ Running
    /\ hubPc = "addInsert"
    /\ RoomReaders(hubRoom) = {}
    /\ roomObj' = [roomObj EXCEPT ![hubRoom].Clients = @ \cup {hubClient}]
    /\ hubCount' = Cardinality(roomObj[hubRoom].Clients \cup {hubClient})
    /\ hubPc' = "addHistCopy"
    /\ UNCHANGED <<repoVars, udpVars, tcpVars, enq, rooms, hubClient, hubRoom, hubHist, memberVars,
                   send, bc, nextChat, panicked>>

\* sendHistoryToClient: copy room.History under room.mu.RLock; return when it
\* is empty.  After the return addClientToRoom calls broadcastToRoom.
AddHistCopy ==
    /\ Running
    /\ hubPc = "addHistCopy"
    /\ hubHist' = roomObj[hubRoom].History
    /\ IF roomObj[hubRoom].History = <<>>
       THEN /\ hubPc' = "addBroadcast"
            /\ bc' = [bc EXCEPT ![HubTask] =
                        StartBroadcast(cRoom[hubClient],
                            SystemMsg(hubClient, cRoom[hubClient], "joined"))]
       ELSE /\ hubPc' = "addHistSend"
            /\ UNCHANGED bc
    /\ UNCHANGED <<repoVars, udpVars, tcpVars, enq, topicVars, hubClient, hubRoom, hubCount, memberVars,
                   send, nextChat, panicked>>

\* sendHistoryToClient: select { case client.Send <- data: default: }; then
\* addClientToRoom calls broadcastToRoom with the join notice
AddHistSend ==
    /\ Running
    /\ hubPc = "addHistSend"
    /\ IF send[hubClient].closed
       THEN /\ panicked' = "send on closed channel"
            /\ UNCHANGED <<send, enq, bc, hubPc, hubHist>>
       ELSE /\ send' = [send EXCEPT ![hubClient].buf =
                          IF Len(@) < SendCap
                          THEN Append(@, HistoryFrame(hubHist)) ELSE @]
            /\ enq' = [enq EXCEPT ![hubClient] =
                         IF Len(send[hubClient].buf) < SendCap
                         THEN Append(@, HistoryFrame(hubHist)) ELSE @]
            /\ hubPc' = "addBroadcast"
            /\ hubHist' = <<>>
            /\ bc' = [bc EXCEPT ![HubTask] =
                        StartBroadcast(cRoom[hubClient],
                            SystemMsg(hubClient, cRoom[hubClient], "joined"))]
            /\ UNCHANGED panicked
    /\ UNCHANGED <<repoVars, udpVars, tcpVars, topicVars, hubClient, hubRoom, hubCount, memberVars,
                   nextChat>>

\* Run: case client := <-h.unregister.  The deferred function of readPump goes
\* on with c.Conn.Close().
RunUnregister(c) ==
    /\ Running
    /\ hubPc = "idle"
    /\ rpPc[c] = "unregister"
    /\ rpPc' = [rpPc EXCEPT ![c] = "done"]
    /\ wsClosed' = [wsClosed EXCEPT ![c] = TRUE]
    /\ hubPc' = "remLookup"
    /\ hubClient' = c
    /\ UNCHANGED <<repoVars, udpVars, tcpVars, enq, topicVars, hubRoom, hubHist, hubCount, cRoom, swPc,
                   wpPc, send, bc, nextChat, panicked>>

\* removeClientFromRoom: look the room up under h.mu.RLock; return if absent
RemLookup ==
    /\ Running
    /\ hubPc = "remLookup"
    /\ IF cRoom[hubClient] \in DOMAIN rooms
       THEN hubRoom' = rooms[cRoom[hubClient]] /\ hubPc' = "remDelete"
       ELSE hubRoom' = 0 /\ hubPc' = "idle"
    /\ hubClient' = IF cRoom[hubClient] \in DOMAIN rooms THEN hubClient ELSE 0
    /\ UNCHANGED <<repoVars, udpVars, tcpVars, enq, topicVars, hubHist, hubCount, memberVars,
                   send, bc, nextChat, panicked>>

\* removeClientFromRoom: under room.mu.Lock, if the client is in room.Clients
\* delete it and close(client.Send); clientCount := len(room.Clients); then
\* call broadcastToRoom with the leave notice
RemDelete ==
    /\ Running
    /\ hubPc = "remDelete"
    /\ RoomReaders(hubRoom) = {}
    /\ IF hubClient \in roomObj[hubRoom].Clients /\ send[hubClient].closed
       THEN /\ panicked' = "close of closed channel"
            /\ UNCHANGED <<roomObj, send, hubCount, hubPc, bc>>
       ELSE /\ roomObj' = [roomObj EXCEPT ![hubRoom].Clients = @ \ {hubClient}]
            /\ send' = [send EXCEPT ![hubClient].closed =
                          @ \/ hubClient \in roomObj[hubRoom].Clients]
            /\ hubCount' = Cardinality(roomObj[hubRoom].Clients \ {hubClient})
            /\ hubPc' = "remBroadcast"
            /\ bc' = [bc EXCEPT ![HubTask] =
                        StartBroadcast(cRoom[hubClient],
                            SystemMsg(hubClient, cRoom[hubClient], "left"))]
            /\ UNCHANGED panicked
    /\ UNCHANGED <<repoVars, udpVars, tcpVars, enq, rooms, hubClient, hubRoom, hubHist, memberVars,
                   nextChat>>

\* removeClientFromRoom: if clientCount == 0, delete(h.rooms, client.Room)
\* under h.mu.Lock
RemCheck ==
    /\ Running
    /\ hubPc = "remCheck"
    /\ rooms' = IF hubCount = 0 THEN MapDel(rooms, cRoom[hubClient]) ELSE rooms
    /\ hubPc' = "idle"
    /\ hubClient' = 0
    /\ hubCount' = 0
    /\ UNCHANGED <<repoVars, udpVars, tcpVars, enq, roomObj, hubRoom, hubHist, memberVars,
                   send, bc, nextChat, panicked>>

\* readPump: ReadMessage returns a message.  Invalid JSON is logged and
\* skipped; a Message is stamped and handed to broadcastToRoom.
ReadMessage(c, payload) ==
    /\ Running
    /\ rpPc[c] = "read"
    /\ ~wsClosed[c]
    /\ IF payload.ok
       THEN /\ nextChat <= MaxChats
            /\ rpPc' = [rpPc EXCEPT ![c] = "bcast"]
            /\ bc' = [bc EXCEPT ![c] =
                        StartBroadcast(cRoom[c],
                                       Stamp(c, cRoom[c], payload, nextChat))]
            /\ nextChat' = nextChat + 1
       ELSE UNCHANGED <<rpPc, bc, nextChat>>
    /\ UNCHANGED <<repoVars, udpVars, tcpVars, enq, topicVars, runVars, cRoom, swPc, wpPc, wsClosed,
                   send, panicked>>

\* readPump: ReadMessage returns an error (the peer left, 60 s without a
\* pong, the connection was closed): break, the deferred function blocks on
\* hub.unregister <- c
ReadMessageError(c) ==
    /\ Running
    /\ rpPc[c] = "read"
    /\ rpPc' = [rpPc EXCEPT ![c] = "unregister"]
    /\ UNCHANGED <<repoVars, udpVars, tcpVars, enq, topicVars, runVars, cRoom, swPc, wpPc, wsClosed,
                   send, bc, nextChat, panicked>>

\* writePump: case message, ok := <-c.Send with a frame in the channel:
\* WriteMessage succeeds, or fails and writePump returns closing the connection
WriteFrame(c, ok) ==
    /\ Running
    /\ wpPc[c] = "run"
    /\ send[c].buf # <<>>
    /\ send' = [send EXCEPT ![c].buf = Tail(@)]
    /\ IF ok
       THEN ~wsClosed[c] /\ UNCHANGED <<wpPc, wsClosed>>
       ELSE /\ wpPc' = [wpPc EXCEPT ![c] = "done"]
            /\ wsClosed' = [wsClosed EXCEPT ![c] = TRUE]
    /\ UNCHANGED <<repoVars, udpVars, tcpVars, enq, topicVars, runVars, cRoom, swPc, rpPc, bc,
                   nextChat, panicked>>

\* writePump: the channel is closed and drained (!ok): write the close
\* message and return; or the ping of the ticker fails: return.  Both close
\* the connection.
WritePumpReturn(c) ==
    /\ Running
    /\ wpPc[c] = "run"
    /\ send[c].buf = <<>>
    /\ wpPc' = [wpPc EXCEPT ![c] = "done"]
    /\ wsClosed' = [wsClosed EXCEPT ![c] = TRUE]
    /\ UNCHANGED <<repoVars, udpVars, tcpVars, enq, topicVars, runVars, cRoom, swPc, rpPc, send, bc,
                   nextChat, panicked>>

\* broadcastToRoom: look the room up under h.mu.RLock; return if absent
BroadcastLookup(t) ==
    /\ Running
    /\ bc[t].pc = "lookup"
    /\ ~HmuWriter
    /\ IF bc[t].name \in DOMAIN rooms
       THEN /\ bc' = [bc EXCEPT ![t].pc = "history",
                                ![t].room = rooms[bc[t].name],
                                ![t].msg.obj = rooms[bc[t].name]]
            /\ UNCHANGED <<hubPc, hubClient, hubRoom, hubCount, rpPc>>
       ELSE /\ bc' = [bc EXCEPT ![t] = IdleBroadcast]
            /\ Return(t)
    /\ UNCHANGED <<repoVars, udpVars, tcpVars, enq, topicVars, hubHist, cRoom, swPc, wpPc, wsClosed,
                   send, nextChat, panicked>>

\* broadcastToRoom: under room.mu.Lock append msg to room.History and keep
\* the last 100
BroadcastHistory(t) ==
    /\ Running
    /\ bc[t].pc = "history"
    /\ RoomReaders(bc[t].room) = {}
    /\ roomObj' = [roomObj EXCEPT ![bc[t].room].History =
                      AppendHistory(@, bc[t].msg)]
    /\ bc' = [bc EXCEPT ![t].pc = "rlock"]
    /\ UNCHANGED <<repoVars, udpVars, tcpVars, enq, rooms, runVars, memberVars, send, nextChat,
                   panicked>>

\* broadcastToRoom: room.mu.RLock(); the range over room.Clients starts
BroadcastRLock(t) ==
    /\ Running
    /\ bc[t].pc = "rlock"
    /\ bc' = [bc EXCEPT ![t].pc = "iter",
                        ![t].iter = roomObj[bc[t].room].Clients]
    /\ UNCHANGED <<repoVars, udpVars, tcpVars, enq, topicVars, runVars, memberVars, send, nextChat,
                   panicked>>

\* one iteration of the range: select { case client.Send <- data: default: }.
\* A send on a closed channel panics; with room in the channel the frame is
\* enqueued; on a full channel the default branch is taken.
BroadcastSend(t, c) ==
    /\ Running
    /\ bc[t].pc = "iter"
    /\ c \in bc[t].iter
    /\ IF send[c].closed
       THEN /\ panicked' = "send on closed channel"
            /\ bc' = [bc EXCEPT ![t].pc = "panic", ![t].cur = c]
            /\ UNCHANGED <<send, enq>>
       ELSE IF Len(send[c].buf) < SendCap
       THEN /\ send' = [send EXCEPT ![c].buf = Append(@, bc[t].msg)]
            /\ enq' = [enq EXCEPT ![c] = Append(@, bc[t].msg)]
            /\ bc' = [bc EXCEPT ![t].iter = @ \ {c}]
            /\ UNCHANGED panicked
       ELSE /\ bc' = [bc EXCEPT ![t].pc = "close", ![t].cur = c,
                                ![t].iter = @ \ {c}]
            /\ UNCHANGED <<send, enq, panicked>>
    /\ UNCHANGED <<repoVars, udpVars, tcpVars, topicVars, runVars, memberVars, nextChat>>

\* Another broadcaster deleted a client from room.Clients while this range is
\* under way (both hold room.mu in read mode): the range may not produce the
\* deleted entry.
BroadcastSkip(t, c) ==
    /\ Running
    /\ bc[t].pc = "iter"
    /\ c \in bc[t].iter
    /\ c \notin roomObj[bc[t].room].Clients
    /\ bc' = [bc EXCEPT ![t].iter = @ \ {c}]
    /\ UNCHANGED <<repoVars, udpVars, tcpVars, enq, topicVars, runVars, memberVars, send, nextChat,
                   panicked>>

\* the default branch: close(client.Send); delete(room.Clients, client), still
\* under room.mu.RLock.  Closing a closed channel panics.
BroadcastDrop(t) ==
    /\ Running
    /\ bc[t].pc = "close"
    /\ IF send[bc[t].cur].closed
       THEN /\ panicked' = "close of closed channel"
            /\ bc' = [bc EXCEPT ![t].pc = "panic"]
            /\ UNCHANGED <<send, roomObj>>
       ELSE /\ send' = [send EXCEPT ![bc[t].cur].closed = TRUE]
            /\ roomObj' = [roomObj EXCEPT ![bc[t].room].Clients = @ \ {bc[t].cur}]
            /\ bc' = [bc EXCEPT ![t].pc = "iter", ![t].cur = 0]
            /\ UNCHANGED panicked
    /\ UNCHANGED <<repoVars, udpVars, tcpVars, enq, rooms, runVars, memberVars, nextChat>>

\* The delete of the default branch writes the map while another task ranges
\* over it or deletes from it: the runtime may stop the process with
\* "concurrent map iteration and map write".
BroadcastMapRace(t) ==
    /\ Running
    /\ bc[t].pc = "close"
    /\ ~send[bc[t].cur].closed
    /\ RoomReaders(bc[t].room) # {t}
    /\ panicked' = "concurrent map iteration and map write"
    /\ send' = [send EXCEPT ![bc[t].cur].closed = TRUE]
    /\ bc' = [bc EXCEPT ![t].pc = "panic"]
    /\ UNCHANGED <<repoVars, udpVars, tcpVars, enq, topicVars, runVars, memberVars, nextChat>>

\* the range is over: the deferred room.mu.RUnlock(), return to the caller
BroadcastEnd(t) ==
    /\ Running
    /\ bc[t].pc = "iter"
    /\ bc[t].iter = {}
    /\ bc' = [bc EXCEPT ![t] = IdleBroadcast]
    /\ Return(t)
    /\ UNCHANGED <<repoVars, udpVars, tcpVars, enq, topicVars, hubHist, cRoom, swPc, wpPc, wsClosed,
                   send, nextChat, panicked>>

NextHub ==
    \/ \E c \in Members, r \in RoomNames : ServeWs(c, r)
    \/ \E c \in Members : RunRegister(c)
    \/ AddLookup
    \/ AddInsert
    \/ AddHistCopy
    \/ AddHistSend
    \/ \E c \in Members : RunUnregister(c)
    \/ RemLookup
    \/ RemDelete
    \/ RemCheck
    \/ \E c \in Members, p \in Payloads : ReadMessage(c, p)
    \/ \E c \in Members : ReadMessageError(c)
    \/ \E c \in Members, ok \in BOOLEAN : WriteFrame(c, ok)
    \/ \E c \in Members : WritePumpReturn(c)
    \/ \E t \in Tasks : BroadcastLookup(t)
    \/ \E t \in Tasks : BroadcastHistory(t)
    \/ \E t \in Tasks : BroadcastRLock(t)
    \/ \E t \in Tasks, c \in Members : BroadcastSend(t, c)
    \/ \E t \in Tasks, c \in Members : BroadcastSkip(t, c)
    \/ \E t \in Tasks : BroadcastDrop(t)
    \/ \E t \in Tasks : BroadcastMapRace(t)
    \/ \E t \in Tasks : BroadcastEnd(t)

SpecHub == Init /\ [][NextHub]_vars

(***************************************************************************)
(* The datagram notification listener (package udp): the receive loop of   *)
(* Start, one handler goroutine per datagram, the sweeper and the two      *)
(* senders.  Time is counted in minutes.                                   *)
(***************************************************************************)
Addrs == {"a1", "a2"}
Handlers == 1..MaxHandlers
PrefKeys == {"chapter_releases", "system_updates"}

\* msg["preferences"] of a register datagram: absent (or no JSON object), or
\* an object whose values are true, false, not a boolean, or missing
NoPrefs == [given |-> FALSE, chapter_releases |-> "missing", system_updates |-> "missing"]
MutedPrefs == [given |-> TRUE, chapter_releases |-> "false", system_updates |-> "missing"]
OddPrefs == [given |-> TRUE, chapter_releases |-> "nonbool", system_updates |-> "true"]

\* the bytes of a datagram: not JSON, JSON without a string "type", or a
\* message with a type, with or without a string "user_id"
Datagram(type, hasUser, user, prefs) ==
    [valid |-> TRUE, type |-> type, hasUser |-> hasUser, user_id |-> user,
     preferences |-> prefs]
InvalidJSON ==
    [valid |-> FALSE, type |-> "", hasUser |-> FALSE, user_id |-> "",
     preferences |-> NoPrefs]
NoDatagram ==
    [valid |-> FALSE, type |-> "none", hasUser |-> FALSE, user_id |-> "",
     preferences |-> NoPrefs]
Datagrams ==
    {InvalidJSON,
     Datagram("", FALSE, "", NoPrefs),
     Datagram("register", FALSE, "", NoPrefs),
     Datagram("unregister", FALSE, "", NoPrefs),
     Datagram("ping", FALSE, "", NoPrefs),
     Datagram("status", FALSE, "", NoPrefs)}
    \cup {Datagram("register", TRUE, "u1", NoPrefs),
          Datagram("register", TRUE, "u1", MutedPrefs),
          Datagram("register", TRUE, "u2", OddPrefs)}

\* preferences that are never defaulted
ExtractWithoutDefaults(p) ==
    [k \in PrefKeys |-> IF p.given /\ p[k] \in {"true", "false"} THEN p[k] ELSE "unset"]

\* handleRegister: the preferences map built from msg["preferences"]: only
\* boolean values are kept; without the object both flags default to true
ExtractPreferences(p) ==
    IF p.given
    THEN [k \in PrefKeys |-> IF p[k] \in {"true", "false"} THEN p[k] ELSE "unset"]
    ELSE [k \in PrefKeys |-> "true"]

NoReply == [status |-> "", preferences |-> [k \in PrefKeys |-> "unset"]]
Reply(status, prefs) == [status |-> status, preferences |-> prefs]

FreeHandler ==
    [pc |-> "free", addr |-> "", own |-> NoDatagram, msg |-> NoDatagram,
     reply |-> NoReply]

\* a registry whose writers do not wait for the lock
UdpLockIgnored == TRUE

\* s.mutex.Lock() returns: no writer and no reader holds s.mutex
UdpLockFree == umutex.writer = None /\ umutex.readers = {}

\* a sweep that removes an endpoint as soon as it is one minute old
ExpiredAfterOneMinute(client, t) == t - client.LastSeen > 1

\* a sweep with a window of ten minutes
ExpiredAfterTenMinutes(client, t) == t - client.LastSeen > 10

\* cleanupInactiveClients: now.Sub(client.LastSeen) > 5*time.Minute
Expired(client, t) == t - client.LastSeen > Window

\* a chapter broadcast that looks at no preference
WantsChapterAlways(client) == TRUE

\* SendChapterNotification: skip when chapter_releases exists and is false
WantsChapter(client) == client.Preferences["chapter_releases"] # "false"

\* a unicast that goes to every endpoint
UdpMatchesAny(client, userID) == TRUE

\* SendNotificationToUser: client.UserID == userID
UdpMatches(client, userID) == client.UserID = userID

\* a register that keeps the entry an address already has
PutIfAbsent(m, k, v) == IF k \in DOMAIN m THEN m ELSE MapPut(m, k, v)

\* handleRegister: s.clients[clientKey] = &UDPClient{...}
PutClient(m, k, v) == MapPut(m, k, v)

\* an unregister that leaves the registry as it is
DeleteNothing(m, k) == m

\* handleUnregister: delete(s.clients, clientKey)
DeleteClient(m, k) == MapDel(m, k)

\* a ping that registers an address the registry does not have
RefreshOrCreate(m, k, t) ==
    IF k \in DOMAIN m
    THEN [m EXCEPT ![k].LastSeen = t]
    ELSE MapPut(m, k, [Addr |-> k, UserID |-> "", LastSeen |-> t,
                       Preferences |-> [p \in PrefKeys |-> "unset"]])

\* handlePing: if client, exists := s.clients[clientKey]; exists
\*   { client.LastSeen = time.Now() }
RefreshLastSeen(m, k, t) ==
    IF k \in DOMAIN m THEN [m EXCEPT ![k].LastSeen = t] ELSE m

\* the loop of a sender ended by the first write error
UdpAbortOnWriteError(rest) == {}

\* the senders log a write error and go on with the range
UdpAfterWriteError(rest) == rest

IdleSend == [pc |-> "idle", kind |-> "", userID |-> "", todo |-> {}]

\* Start: conn.ReadFromUDP(buffer) returns a datagram of a sender;
\* go s.handleMessage(buffer[:n], clientAddr).  The goroutine gets a slice of
\* the one buffer of the loop.
Receive(a, d) ==
    /\ nDatagrams < MaxDatagrams
    /\ \E h \in Handlers :
          /\ uh[h].pc = "free"
          /\ \A g \in Handlers : g < h => uh[g].pc # "free"
          /\ uh' = [uh EXCEPT ![h] = [pc |-> "parse", addr |-> a, own |-> d,
                                      msg |-> NoDatagram, reply |-> NoReply]]
    /\ buffer' = d
    /\ nDatagrams' = nDatagrams + 1
    /\ UNCHANGED <<repoVars, tcpVars, hubVars, uclients, umutex, unow, sweepDue, uSend,
                   usent>>

\* handleMessage: json.Unmarshal(data, &msg), msg["type"].(string), switch.
\* data is the slice of the shared buffer: when the loop has read a later
\* datagram into it, the handler parses the later bytes or a torn mix.
HandleMessage(h, data) ==
    /\ uh[h].pc = "parse"
    /\ data \in (IF buffer = uh[h].own THEN {buffer} ELSE {buffer, InvalidJSON})
    /\ IF data.valid /\ data.type \in {"register", "unregister", "ping"}
       THEN uh' = [uh EXCEPT ![h].pc = data.type, ![h].own = NoDatagram,
                             ![h].msg = data]
       ELSE uh' = [uh EXCEPT ![h] = FreeHandler]
    /\ UNCHANGED <<repoVars, tcpVars, hubVars, uclients, umutex, unow, sweepDue, buffer,
                   nDatagrams, uSend, usent>>

\* handleRegister: return without a string user_id; else store the endpoint
\* under addr.String() with s.mutex.Lock held
HandleRegister(h) ==
    /\ uh[h].pc = "register"
    /\ IF ~uh[h].msg.hasUser
       THEN /\ uh' = [uh EXCEPT ![h] = FreeHandler]
            /\ UNCHANGED uclients
       ELSE /\ UdpLockFree
            /\ uclients' = PutClient(uclients, uh[h].addr,
                             [Addr |-> uh[h].addr,
                              UserID |-> uh[h].msg.user_id,
                              LastSeen |-> unow,
                              Preferences |->
                                  ExtractPreferences(uh[h].msg.preferences)])
            /\ uh' = [uh EXCEPT ![h].pc = "reply", ![h].msg = NoDatagram,
                        ![h].reply = Reply("registered",
                            ExtractPreferences(uh[h].msg.preferences))]
    /\ UNCHANGED <<repoVars, tcpVars, hubVars, umutex, unow, sweepDue, buffer,
                   nDatagrams, uSend, usent>>

\* handleUnregister: delete(s.clients, clientKey) with s.mutex.Lock held
HandleUnregister(h) ==
    /\ uh[h].pc = "unregister"
    /\ UdpLockFree
    /\ uclients' = DeleteClient(uclients, uh[h].addr)
    /\ uh' = [uh EXCEPT ![h].pc = "reply", ![h].msg = NoDatagram,
                        ![h].reply = Reply("unregistered", NoReply.preferences)]
    /\ UNCHANGED <<repoVars, tcpVars, hubVars, umutex, unow, sweepDue, buffer,
                   nDatagrams, uSend, usent>>

\* handlePing: with s.mutex.Lock held, client.LastSeen = time.Now() if the
\* address is registered
HandlePing(h) ==
    /\ uh[h].pc = "ping"
    /\ UdpLockFree
    /\ uclients' = RefreshLastSeen(uclients, uh[h].addr, unow)
    /\ uh' = [uh EXCEPT ![h].pc = "reply", ![h].msg = NoDatagram,
                        ![h].reply = Reply("pong", NoReply.preferences)]
    /\ UNCHANGED <<repoVars, tcpVars, hubVars, umutex, unow, sweepDue, buffer,
                   nDatagrams, uSend, usent>>

\* sendToClient(addr, response): WriteToUDP; an error is logged
SendToClient(h) ==
    /\ uh[h].pc = "reply"
    /\ uh' = [uh EXCEPT ![h] = FreeHandler]
    /\ UNCHANGED <<repoVars, tcpVars, hubVars, uclients, umutex, unow, sweepDue, buffer,
                   nDatagrams, uSend, usent>>

\* a minute passes: the ticker of cleanupInactiveClients fires (its channel
\* holds one tick)
Minute ==
    /\ unow < MaxTime
    /\ unow' = unow + 1
    /\ sweepDue' = TRUE
    /\ UNCHANGED <<repoVars, tcpVars, hubVars, uclients, umutex, buffer, uh, nDatagrams,
                   uSend, usent>>

\* cleanupInactiveClients: one round of the loop, with s.mutex.Lock held
CleanupInactiveClients ==
    /\ sweepDue
    /\ UdpLockFree
    /\ uclients' = [a \in {x \in DOMAIN uclients : ~Expired(uclients[x], unow)}
                      |-> uclients[a]]
    /\ sweepDue' = FALSE
    /\ UNCHANGED <<repoVars, tcpVars, hubVars, umutex, unow, buffer, uh, nDatagrams,
                   uSend, usent>>

\* SendNotificationToUser(userID, notification): s.mutex.RLock(), defer
\* RUnlock, marshal, start the range
SendNotificationToUser(userID) ==
    /\ uSend.pc = "idle"
    /\ umutex.writer = None
    /\ umutex' = [umutex EXCEPT !.readers = @ \cup {"send"}]
    /\ uSend' = [pc |-> "write", kind |-> "user", userID |-> userID,
                 todo |-> {a \in DOMAIN uclients : UdpMatches(uclients[a], userID)}]
    /\ UNCHANGED <<repoVars, tcpVars, hubVars, uclients, unow, sweepDue, buffer, uh,
                   nDatagrams, usent>>

\* SendChapterNotification(title, chapter, mangaID): s.mutex.RLock(), defer
\* RUnlock, marshal, start the range
SendChapterNotification ==
    /\ uSend.pc = "idle"
    /\ umutex.writer = None
    /\ umutex' = [umutex EXCEPT !.readers = @ \cup {"send"}]
    /\ uSend' = [pc |-> "write", kind |-> "chapter", userID |-> "",
                 todo |-> {a \in DOMAIN uclients : WantsChapter(uclients[a])}]
    /\ UNCHANGED <<repoVars, tcpVars, hubVars, uclients, unow, sweepDue, buffer, uh,
                   nDatagrams, usent>>

\* one iteration of a sender's range on an endpoint it does not skip:
\* s.conn.WriteToUDP(data, client.Addr); an error is logged
WriteToUDP(a, outcome) ==
    /\ uSend.pc = "write"
    /\ a \in uSend.todo
    /\ usent' = [usent EXCEPT ![a] = Append(@, outcome)]
    /\ uSend' = [uSend EXCEPT !.todo =
                    IF outcome = "ok" THEN uSend.todo \ {a}
                    ELSE UdpAfterWriteError(uSend.todo \ {a})]
    /\ UNCHANGED <<repoVars, tcpVars, hubVars, uclients, umutex, unow, sweepDue, buffer,
                   uh, nDatagrams>>

\* the range of a sender is over: log, return, deferred s.mutex.RUnlock()
SendReturn ==
    /\ uSend.pc = "write"
    /\ uSend.todo = {}
    /\ umutex' = [umutex EXCEPT !.readers = @ \ {"send"}]
    /\ uSend' = IdleSend
    /\ usent' = [a \in Addrs |-> <<>>]
    /\ UNCHANGED <<repoVars, tcpVars, hubVars, uclients, unow, sweepDue, buffer, uh,
                   nDatagrams>>

NextUdp ==
    \/ \E a \in Addrs, d \in Datagrams : Receive(a, d)
    \/ \E h \in Handlers, d \in Datagrams : HandleMessage(h, d)
    \/ \E h \in Handlers : HandleRegister(h)
    \/ \E h \in Handlers : HandleUnregister(h)
    \/ \E h \in Handlers : HandlePing(h)
    \/ \E h \in Handlers : SendToClient(h)
    \/ Minute
    \/ CleanupInactiveClients
    \/ \E u \in Users : SendNotificationToUser(u)
    \/ SendChapterNotification
    \/ \E a \in Addrs, o \in {"ok", "fail"} : WriteToUDP(a, o)
    \/ SendReturn

SpecUdp == Init /\ [][NextUdp]_vars


(***************************************************************************)
(* The repositories over the SQLite tables users and user_progress         *)
(* (pkg/database/db.go).  A call is one SQL statement: one atomic step.    *)
(* The outcome of the last call is kept in uret and lret.                  *)
(***************************************************************************)
UserIDs == {"i1", "i2", "i3"}
Usernames == {"n1", "n2"}
Emails == {"e1", "e2"}
MangaIDs == {"m1"}
ChapterValues == {10, 20}
Statuses == {"reading", "completed"}
Ratings == {0, 8}
Pairs == Users \X MangaIDs

NoRow == [CurrentChapter |-> 0, Status |-> "", Rating |-> 0, UpdatedAt |-> 0,
          StartedAt |-> 0]

\* the constraint of table users an INSERT of u fails on, "" if none: SQLite
\* checks the unique indexes of a table from the last declared to the first
\* (email, username, id) and reports the first that fails
FailedConstraint(rows, u) ==
    IF \E r \in rows : r.Email = u.Email THEN "users.email"
    ELSE IF \E r \in rows : r.Username = u.Username THEN "users.username"
    ELSE IF \E r \in rows : r.ID = u.ID THEN "users.id"
    ELSE ""

\* isUniqueConstraintError(err, field): the message of the error is
\* "UNIQUE constraint failed: users." + field
IsUniqueConstraintError(constraint, field) == constraint = "users." \o field

\* a Create that reports every failed constraint as a duplicate username
CreateErrorAlwaysUsername(constraint) ==
    IF constraint = "" THEN "nil" ELSE "ErrUsernameExists"

\* Repository.Create: the error returned for the result of the INSERT
CreateError(constraint) ==
    IF constraint = "" THEN "nil"
    ELSE IF IsUniqueConstraintError(constraint, "username") THEN "ErrUsernameExists"
    ELSE IF IsUniqueConstraintError(constraint, "email") THEN "ErrEmailExists"
    ELSE "failed to create user"

\* Repository.Create(user): INSERT INTO users
RepositoryCreate(u) ==
    /\ users' = IF FailedConstraint(users, u) = "" THEN users \cup {u} ELSE users
    /\ uret' = [user |-> u, err |-> CreateError(FailedConstraint(users, u))]
    /\ UNCHANGED <<tcpVars, hubVars, udpVars, library, rnow, lret>>

NextUsers ==
    \E i \in UserIDs, n \in Usernames, e \in Emails :
        RepositoryCreate([ID |-> i, Username |-> n, Email |-> e])

SpecUsers == Init /\ [][NextUsers]_vars

\* an upsert that overwrites started_at as well
UpsertAll(lib, pair, row) == MapPut(lib, pair, row)

\* AddToLibrary: INSERT ... ON CONFLICT(user_id, manga_id) DO UPDATE SET
\* current_chapter, status, rating, updated_at (started_at is not in the list)
Upsert(lib, pair, row) ==
    IF pair \in DOMAIN lib
    THEN [lib EXCEPT ![pair] = [row EXCEPT !.StartedAt = lib[pair].StartedAt]]
    ELSE MapPut(lib, pair, row)

\* Repository.AddToLibrary(progress); the callers set UpdatedAt and StartedAt
\* to time.Now()
RepositoryAddToLibrary(pair, chapter, status, rating) ==
    /\ library' = Upsert(library, pair,
                         [CurrentChapter |-> chapter, Status |-> status,
                          Rating |-> rating, UpdatedAt |-> rnow,
                          StartedAt |-> rnow])
    /\ lret' = [op |-> "AddToLibrary", pair |-> pair, err |-> "nil",
                row |-> [CurrentChapter |-> chapter, Status |-> status,
                         Rating |-> rating, UpdatedAt |-> rnow,
                         StartedAt |-> rnow]]
    /\ UNCHANGED <<tcpVars, hubVars, udpVars, users, uret, rnow>>

\* an update that inserts the row it does not find
UpdateOrInsert(lib, pair, chapter, t) ==
    IF pair \in DOMAIN lib
    THEN [lib EXCEPT ![pair].CurrentChapter = chapter, ![pair].UpdatedAt = t]
    ELSE MapPut(lib, pair, [NoRow EXCEPT !.CurrentChapter = chapter,
                                         !.UpdatedAt = t, !.StartedAt = t])

\* UPDATE user_progress SET current_chapter = ?, updated_at = ? WHERE ...
UpdateRow(lib, pair, chapter, t) ==
    IF pair \in DOMAIN lib
    THEN [lib EXCEPT ![pair].CurrentChapter = chapter, ![pair].UpdatedAt = t]
    ELSE lib

\* Repository.UpdateProgress(userID, mangaID, chapter): ErrProgressNotFound
\* when no row was affected
RepositoryUpdateProgress(pair, chapter) ==
    /\ library' = UpdateRow(library, pair, chapter, rnow)
    /\ lret' = [op |-> "UpdateProgress", pair |-> pair,
                err |-> IF pair \in DOMAIN library THEN "nil"
                        ELSE "ErrProgressNotFound",
                row |-> [NoRow EXCEPT !.CurrentChapter = chapter]]
    /\ UNCHANGED <<tcpVars, hubVars, udpVars, users, uret, rnow>>

\* Repository.GetProgress(userID, mangaID): sql.ErrNoRows is
\* ErrProgressNotFound
RepositoryGetProgress(pair) ==
    /\ lret' = [op |-> "GetProgress", pair |-> pair,
                err |-> IF pair \in DOMAIN library THEN "nil"
                        ELSE "ErrProgressNotFound",
                row |-> IF pair \in DOMAIN library THEN library[pair] ELSE NoRow]
    /\ UNCHANGED <<tcpVars, hubVars, udpVars, users, uret, library, rnow>>

\* a delete that reports success for a pair that is not stored
RemoveErrorNever(lib, pair) == "nil"

\* RemoveFromLibrary: ErrProgressNotFound when no row was affected
RemoveError(lib, pair) ==
    IF pair \in DOMAIN lib THEN "nil" ELSE "ErrProgressNotFound"

\* Repository.RemoveFromLibrary(userID, mangaID): DELETE FROM user_progress
RepositoryRemoveFromLibrary(pair) ==
    /\ library' = MapDel(library, pair)
    /\ lret' = [op |-> "RemoveFromLibrary", pair |-> pair,
                err |-> RemoveError(library, pair), row |-> NoRow]
    /\ UNCHANGED <<tcpVars, hubVars, udpVars, users, uret, rnow>>

\* time.Now() moves on between two calls
RepositoryTick ==
    /\ rnow < MaxRepoTime
    /\ rnow' = rnow + 1
    /\ UNCHANGED <<tcpVars, hubVars, udpVars, users, uret, library, lret>>

NextLibrary ==
    \/ \E p \in Pairs, ch \in ChapterValues, st \in Statuses, ra \in Ratings :
          RepositoryAddToLibrary(p, ch, st, ra)
    \/ \E p \in Pairs, ch \in ChapterValues : RepositoryUpdateProgress(p, ch)
    \/ \E p \in Pairs : RepositoryGetProgress(p)
    \/ \E p \in Pairs : RepositoryRemoveFromLibrary(p)
    \/ RepositoryTick

SpecLibrary == Init /\ [][NextLibrary]_vars


(***************************************************************************)
(* Properties of the topic hub.                                            *)
(***************************************************************************)
\* C9: when a broadcaster has found a member's Send channel full (it is in the
\* default branch of the select), its next step closes that channel and
\* removes the member from the room, no panic stops it, and it goes on with
\* the range over the other members.
C9_SlowConsumerDropped ==
    [][\A t \in Tasks :
          (bc[t].pc = "close" /\ bc'[t] # bc[t])
              => /\ panicked' = NoPanic
                 /\ send'[bc[t].cur].closed
                 /\ bc[t].cur \notin roomObj'[bc[t].room].Clients
                 /\ bc'[t].pc = "iter"
                 /\ bc'[t].iter = bc[t].iter]_vars

\* C10: topic lifecycle.  (1) addClientToRoom on a name that is not in the hub
\* puts a new room object under that name, with no members and an empty
\* history; on a name that is in the hub it changes neither the hub map nor
\* the room objects.  (2) When removeClientFromRoom took the last member out
\* (clientCount, the size of the member set after the removal, is 0), the name
\* is out of the hub when it returns.  (3) A room object only ever holds
\* messages that were broadcast to that very object, and the history frame
\* handed to a joining member is the copy of the history of the object it
\* joined, which is the one the hub holds under the name, and goes to nobody
\* else; every history frame on a queue holds messages of one object only.
C10_TopicLifecycle ==
    [][/\ (hubPc = "addLookup" /\ hubPc' = "addInsert") =>
              /\ cRoom[hubClient] \in DOMAIN rooms'
              /\ hubRoom' = rooms'[cRoom[hubClient]]
              /\ IF cRoom[hubClient] \in DOMAIN rooms
                 THEN rooms' = rooms /\ roomObj' = roomObj
                 ELSE /\ hubRoom' = Len(roomObj) + 1
                      /\ Len(roomObj') = Len(roomObj) + 1
                      /\ roomObj'[hubRoom'].Name = cRoom[hubClient]
                      /\ roomObj'[hubRoom'].Clients = {}
                      /\ roomObj'[hubRoom'].History = <<>>
       /\ (hubPc = "remDelete" /\ hubPc' = "remBroadcast") =>
              hubCount' = Cardinality(roomObj'[hubRoom].Clients)
       /\ (hubPc = "remCheck" /\ hubPc' = "idle" /\ hubCount = 0) =>
              cRoom[hubClient] \notin DOMAIN rooms'
       /\ \A r \in 1..Len(roomObj') :
              \A i \in 1..Len(roomObj'[r].History) :
                  roomObj'[r].History[i].obj = r
       /\ (hubPc = "addHistSend" /\ hubPc' = "addBroadcast") =>
              /\ hubRoom = rooms[cRoom[hubClient]]
              /\ \A i \in 1..Len(hubHist) : hubHist[i].obj = hubRoom
              /\ \A c \in Members \ {hubClient} : send'[c] = send[c]
              /\ send'[hubClient].buf \in
                    {send[hubClient].buf,
                     Append(send[hubClient].buf, HistoryFrame(hubHist))}
       /\ \A c \in Members : \A i \in 1..Len(send'[c].buf) :
              \A j \in 1..Len(send'[c].buf[i].messages) :
                  LET m == send'[c].buf[i].messages[j]
                  IN  /\ m.obj = send'[c].buf[i].messages[1].obj
                      /\ roomObj'[m.obj].Name = cRoom'[c]]_vars

\* C10 witness: the room "general" was made, got a history, lost its last
\* member and was deleted; a second room object was made under the same name
\* and a member has joined it, and the only frame that member was handed is its
\* own join notice.
C10_Witness ==
    /\ Len(roomObj) = 2
    /\ roomObj[1].Name = roomObj[2].Name
    /\ roomObj[1].History # <<>>
    /\ roomObj[1].Clients = {}
    /\ rooms = MapPut(<<>>, roomObj[2].Name, 2)
    /\ hubPc = "idle"
    /\ roomObj[2].Clients = {2}
    /\ Len(roomObj[2].History) = 1
    /\ send[2].buf = roomObj[2].History
    /\ send[2].buf[1].Type = "system"

\* the last n elements of a sequence (all of it when it is shorter)
LastN(seq, n) ==
    IF Len(seq) <= n THEN seq ELSE SubSeq(seq, Len(seq) - n + 1, Len(seq))

\* C11: a room's history never holds more than HistoryCap (100 in the code)
\* messages, and every change of a history is the append of the message being
\* broadcast to that room followed by keeping the HistoryCap most recent ones
\* in their order: the history is always the tail of the sequence of messages
\* broadcast to the room, oldest first.
C11_HistoryBound ==
    [][\A r \in 1..Len(roomObj') :
          /\ Len(roomObj'[r].History) <= HistoryCap
          /\ (r <= Len(roomObj) /\ roomObj'[r].History # roomObj[r].History) =>
                \E t \in Tasks :
                    /\ bc[t].pc = "history" /\ bc[t].room = r
                    /\ bc'[t].pc = "rlock"
                    /\ roomObj'[r].History =
                          LastN(roomObj[r].History \o <<bc[t].msg>>, HistoryCap)
          /\ r > Len(roomObj) => roomObj'[r].History = <<>>]_vars

\* C11 witness: more than HistoryCap messages were broadcast to the only room
\* ever made: it is full and holds the leave notice of a member whose join
\* notice, broadcast to the same room earlier, is gone.
C11_Witness ==
    /\ Len(roomObj) = 1
    /\ Len(roomObj[1].History) = HistoryCap
    /\ \E i \in 1..HistoryCap :
          /\ roomObj[1].History[i].Type = "system"
          /\ roomObj[1].History[i].Text = "left"
          /\ \A j \in 1..HistoryCap :
                ~ ( /\ roomObj[1].History[j].Type = "system"
                    /\ roomObj[1].History[j].Text = "joined"
                    /\ roomObj[1].History[j].Username =
                          roomObj[1].History[i].Username )

\* the elements of a sequence
Range(seq) == {seq[i] : i \in 1..Len(seq)}

\* every frame a broadcast carries, a Send channel holds or a history keeps,
\* the messages inside history frames included
LiveFrames ==
    UNION {Range(send[c].buf) : c \in Members}
    \cup UNION {Range(roomObj[r].History) : r \in 1..Len(roomObj)}
    \cup {bc[t].msg : t \in {x \in Tasks : bc[x].pc # "idle"}}
AllFrames == LiveFrames \cup UNION {Range(f.messages) : f \in LiveFrames}

\* C12: every chat frame in the hub carries type "chat" and the username and
\* room name some served member gave to ServeWs, never a value only a payload
\* held ("mallory", "other", type "system"); the chat message a receive loop
\* broadcasts carries that member's own username and room; and the only
\* system frames are the hub's join and leave notices.
C12_ServerStampsIdentity ==
    /\ \A f \in AllFrames :
          /\ f.Type \in {"chat", "system", "history"}
          /\ f.Type = "chat" =>
                /\ f.id \in 1..MaxChats
                /\ \E c \in Members :
                      /\ rpPc[c] # "new"
                      /\ f.Username = Username(c)
                      /\ f.Room = cRoom[c]
          /\ f.Type = "system" => f.id = 0 /\ f.Text \in {"joined", "left"}
    /\ \A c \in Members :
          bc[c].pc # "idle" =>
              /\ bc[c].msg.Type = "chat"
              /\ bc[c].msg.Username = Username(c)
              /\ bc[c].msg.Room = cRoom[c]
              /\ bc[c].name = cRoom[c]

\* C12 witness: alice's chat message is on bob's Send channel with her
\* join-time username and room.
C12_Witness ==
    /\ send[2].buf # <<>>
    /\ send[2].buf[1].Type = "chat"
    /\ send[2].buf[1].Username = "alice"
    /\ send[2].buf[1].Room = cRoom[1]
    /\ send[2].buf[1].Text = "hi"

\* C13: on every member's Send channel a history frame is the first frame ever
\* placed, there is at most one of them, and no message inside it was also
\* placed on that channel as a live frame.
C13_HistoryFirst ==
    \A c \in Members :
        \A i \in 1..Len(enq[c]) :
            enq[c][i].Type = "history" =>
                /\ i = 1
                /\ \A j \in 1..Len(enq[c]) :
                      /\ j # i => enq[c][j].Type # "history"
                      /\ enq[c][j] \notin Range(enq[c][i].messages)

\* C14: every step that changes the member set or the history of a room object
\* is taken with that room's lock held in exclusive mode: no task holds it in
\* read mode when the step is taken.
C14_MutateUnderExclusiveLock ==
    [][\A r \in 1..Len(roomObj) :
          ( \/ roomObj'[r].Clients # roomObj[r].Clients
            \/ roomObj'[r].History # roomObj[r].History )
              => RoomReaders(r) = {}]_vars

\* C15: topics are isolated.  A live frame is placed on a member's Send only by
\* a broadcast to the room object the member is in, whose name is the frame's
\* room and the member's room, and that step leaves the Send channels of the
\* members of every other room as they are; a message is appended only to the
\* history of the room object of its own name, and that step leaves every other
\* history as it is.
C15_TopicsIsolated ==
    [][/\ \A c \in Members :
             enq'[c] # enq[c] =>
                 LET f == enq'[c][Len(enq'[c])]
                 IN  \/ f.Type = "history" /\ c = hubClient
                     \/ /\ f.Type \in {"chat", "system"}
                        /\ f.Room = cRoom[c]
                        /\ \E t \in Tasks :
                              /\ bc[t].pc = "iter" /\ bc[t].msg = f
                              /\ bc[t].name = f.Room
                              /\ roomObj[bc[t].room].Name = f.Room
                              /\ c \in roomObj[bc[t].room].Clients
                        /\ \A d \in Members :
                              cRoom[d] # f.Room =>
                                  enq'[d] = enq[d] /\ send'[d] = send[d]
       /\ \A r \in 1..Len(roomObj) :
             roomObj'[r].History # roomObj[r].History =>
                 /\ roomObj'[r].History[Len(roomObj'[r].History)].Room
                        = roomObj[r].Name
                 /\ \A q \in 1..Len(roomObj) :
                       q # r => roomObj'[q].History = roomObj[q].History]_vars

\* C15 witness: alice is in "general" and bob in "manga"; alice's chat message
\* was broadcast to "general" and is done; bob's Send only ever got his own
\* join notice and the history of "manga" holds nothing else.
C15_Witness ==
    /\ Len(roomObj) = 2
    /\ cRoom[1] = "general" /\ cRoom[2] = "manga"
    /\ 1 \in roomObj[rooms["general"]].Clients
    /\ 2 \in roomObj[rooms["manga"]].Clients
    /\ \A t \in Tasks : bc[t].pc = "idle"
    /\ \E i \in 1..Len(enq[1]) : enq[1][i].Type = "chat"
    /\ Len(enq[2]) = 1 /\ enq[2][1].Type = "system" /\ enq[2][1].Username = "bob"
    /\ roomObj[rooms["manga"]].History = enq[2]


(***************************************************************************)
(* Properties of the datagram listener.                                    *)
(***************************************************************************)

\* C16: the registry holds at most one endpoint per sender address: the key
\* of an entry is its address, and a register handled for an address writes
\* the entry of that address with the account id, the preferences and the
\* time of this register, replacing the entry the address had and touching
\* no other entry.
C16_RegisterReplaces ==
    [][/\ \A a \in DOMAIN uclients' : uclients'[a].Addr = a
       /\ \A h \in Handlers :
             (uh[h].pc = "register" /\ uh[h].msg.hasUser /\ uh'[h].pc = "reply") =>
                /\ DOMAIN uclients' = DOMAIN uclients \cup {uh[h].addr}
                /\ uclients'[uh[h].addr] =
                      [Addr |-> uh[h].addr,
                       UserID |-> uh[h].msg.user_id,
                       LastSeen |-> unow,
                       Preferences |-> ExtractPreferences(uh[h].msg.preferences)]
                /\ \A b \in DOMAIN uclients \ {uh[h].addr} :
                      uclients'[b] = uclients[b]]_vars

\* two registers of one address, for different accounts, have been handled:
\* the registry has the one entry of the later one
C16_Witness ==
    /\ \A h \in {1, 2} : uh[h].pc = "reply" /\ uh[h].addr = "a1"
    /\ uh[1].reply = Reply("registered", ExtractPreferences(MutedPrefs))
    /\ uh[2].reply = Reply("registered", ExtractPreferences(OddPrefs))
    /\ DOMAIN uclients = {"a1"}
    /\ uclients["a1"].UserID = "u2"
    /\ uclients["a1"].Preferences = ExtractPreferences(OddPrefs)
    /\ uclients["a1"].LastSeen = 1


\* C17: SendNotificationToUser(userID, n) writes n to no address that is not
\* registered for userID, and when its range is over it has written n once to
\* every address registered for userID, whatever the writes returned.
C17_UnicastToAccount ==
    uSend.kind = "user" =>
       /\ \A a \in Addrs :
             usent[a] # <<>> =>
                a \in DOMAIN uclients /\ uclients[a].UserID = uSend.userID
       /\ uSend.todo = {} =>
             \A a \in DOMAIN uclients :
                uclients[a].UserID = uSend.userID => Len(usent[a]) = 1

\* a unicast to an account with two endpoints is over: the write to one
\* address failed and the other address was written
C17_Witness ==
    /\ uSend.pc = "write" /\ uSend.kind = "user" /\ uSend.userID = "u1"
    /\ uSend.todo = {}
    /\ DOMAIN uclients = {"a1", "a2"}
    /\ usent["a1"] = <<"fail">>
    /\ usent["a2"] = <<"ok">>


C19_SilentEndpointSwept ==
    [][/\ (sweepDue /\ ~sweepDue') =>
             \A a \in DOMAIN uclients :
                unow - uclients[a].LastSeen > Window => a \notin DOMAIN uclients'
       /\ \A a \in Addrs :
             (a \in uSend'.todo \/ usent'[a] # <<>>) => a \in DOMAIN uclients']_vars

\* the only datagram received is a register of a1, handled at minute 0 (its
\* confirmation is still to be written); six minutes later the sweep has run,
\* a1 is not registered, and a chapter broadcast started since has an empty
\* delivery list
C19_Witness ==
    /\ nDatagrams = 1
    /\ uh[1].pc = "reply" /\ uh[1].addr = "a1"
    /\ uh[1].reply.status = "registered"
    /\ unow = Window + 1
    /\ ~sweepDue
    /\ "a1" \notin DOMAIN uclients
    /\ uSend.pc = "write" /\ uSend.kind = "chapter" /\ uSend.todo = {}
    /\ usent["a1"] = <<>>


\* C20: a ping handled for a registered address sets its lastSeenAt to the
\* time of handling, and a sweep removes or alters no endpoint whose
\* lastSeenAt is at most one liveness window old: in whatever order ping
\* handlers and sweeps take the lock, an endpoint with a ping handled in each
\* window stays registered.
C20_PingKeepsEndpoint ==
    [][/\ \A h \in Handlers :
             (uh[h].pc = "ping" /\ uh'[h].pc = "reply"
                /\ uh[h].addr \in DOMAIN uclients) =>
                /\ DOMAIN uclients' = DOMAIN uclients
                /\ uclients'[uh[h].addr] =
                      [uclients[uh[h].addr] EXCEPT !.LastSeen = unow]
       /\ (sweepDue /\ ~sweepDue') =>
             \A a \in DOMAIN uclients :
                unow - uclients[a].LastSeen <= Window =>
                   a \in DOMAIN uclients' /\ uclients'[a] = uclients[a]]_vars

\* a1 registered and its ping was handled at minute 1 (both replies are still
\* to be written); the sweep of minute 6 has run and a1 is registered
C20_Witness ==
    /\ uh[1].pc = "reply" /\ uh[1].addr = "a1" /\ uh[1].reply.status = "registered"
    /\ uh[2].pc = "reply" /\ uh[2].addr = "a1" /\ uh[2].reply.status = "pong"
    /\ unow = Window + 1
    /\ ~sweepDue
    /\ "a1" \in DOMAIN uclients
    /\ uclients["a1"].LastSeen = 1


\* C21: when an unregister of an address has been handled the address is not
\* in the registry, whether it was there or not; the entries of the other
\* addresses are as they were, and in both cases the handler goes on to write
\* the confirmation to that address.
C21_UnregisterRemoves ==
    [][\A h \in Handlers :
          (uh[h].pc = "unregister" /\ uh'[h].pc # "unregister") =>
             /\ uh[h].addr \notin DOMAIN uclients'
             /\ DOMAIN uclients' = DOMAIN uclients \ {uh[h].addr}
             /\ \A b \in DOMAIN uclients' : uclients'[b] = uclients[b]
             /\ uh'[h].pc = "reply"
             /\ uh'[h].addr = uh[h].addr
             /\ uh'[h].reply.status = "unregistered"]_vars

\* a register and then an unregister of a1 have been handled within the same
\* minute: a1 is gone
C21_Witness ==
    /\ uh[1].pc = "reply" /\ uh[1].addr = "a1" /\ uh[1].reply.status = "registered"
    /\ uh[2].pc = "reply" /\ uh[2].addr = "a1" /\ uh[2].reply.status = "unregistered"
    /\ unow = 0
    /\ DOMAIN uclients = {}


\* C22: handling a ping never adds or removes a registry entry; for a
\* registered sender it changes nothing but the lastSeenAt of the sender's
\* entry; whether the sender is registered or not, the handler goes on to
\* write a pong to the sender.
C22_PingEffect ==
    [][\A h \in Handlers :
          (uh[h].pc = "ping" /\ uh'[h].pc # "ping") =>
             /\ DOMAIN uclients' = DOMAIN uclients
             /\ \A b \in DOMAIN uclients :
                   /\ uclients'[b].Addr = uclients[b].Addr
                   /\ uclients'[b].UserID = uclients[b].UserID
                   /\ uclients'[b].Preferences = uclients[b].Preferences
                   /\ b # uh[h].addr => uclients'[b].LastSeen = uclients[b].LastSeen
             /\ uh'[h].pc = "reply"
             /\ uh'[h].addr = uh[h].addr
             /\ uh'[h].reply.status = "pong"]_vars

\* a2 registered at minute 0; a minute later a ping of a1, which is not
\* registered, has been handled: the registry is the entry of a2 as it was
C22_Witness ==
    /\ uh[1].pc = "reply" /\ uh[1].addr = "a2" /\ uh[1].reply.status = "registered"
    /\ uh[2].pc = "reply" /\ uh[2].addr = "a1" /\ uh[2].reply.status = "pong"
    /\ unow = 1
    /\ DOMAIN uclients = {"a2"}
    /\ uclients["a2"].LastSeen = 0


C26_CreateRejectsDuplicates ==
    [][LET u == uret'.user
           dupName == \E r \in users : r.Username = u.Username
           dupMail == \E r \in users : r.Email = u.Email
       IN  /\ (dupName /\ ~dupMail) => uret'.err = "ErrUsernameExists"
           /\ (dupMail /\ ~dupName) => uret'.err = "ErrEmailExists"
           /\ (dupName /\ dupMail) =>
                 uret'.err \in {"ErrUsernameExists", "ErrEmailExists"}
           /\ (dupName \/ dupMail) => users' = users
           /\ \A r, q \in users' :
                 (r.Username = q.Username \/ r.Email = q.Email) => r = q]_vars

\* a user is stored and the last Create, with the username of that user
\* and an email and an id nobody has, returned ErrUsernameExists
C26_Witness ==
    /\ Cardinality(users) = 1
    /\ uret.err = "ErrUsernameExists"
    /\ \E r \in users : r.Username = uret.user.Username
    /\ \A r \in users : r.Email # uret.user.Email /\ r.ID # uret.user.ID


\* C27: UpdateProgress for a pair that is not in the library returns
\* ErrProgressNotFound and leaves the stored progress as it is; for a pair
\* that is in the library it returns no error, sets the current chapter of
\* that pair to the given value and touches no other pair; and GetProgress
\* for a stored pair returns the stored row: after an UpdateProgress it
\* returns the chapter that call set.
C27_UpdateProgress ==
    [][rnow' = rnow =>
          /\ lret'.op = "UpdateProgress" =>
                IF lret'.pair \notin DOMAIN library
                THEN lret'.err = "ErrProgressNotFound" /\ library' = library
                ELSE /\ lret'.err = "nil"
                     /\ DOMAIN library' = DOMAIN library
                     /\ library'[lret'.pair].CurrentChapter = lret'.row.CurrentChapter
                     /\ \A q \in DOMAIN library \ {lret'.pair} :
                           library'[q] = library[q]
          /\ (lret'.op = "GetProgress" /\ lret'.pair \in DOMAIN library) =>
                lret'.err = "nil" /\ lret'.row = library[lret'.pair]]_vars

\* a pair added at time 0 has been updated to chapter 20 at time 1; the other
\* pair is not in the library
C27_Witness ==
    /\ lret.op = "UpdateProgress" /\ lret.err = "nil"
    /\ lret.pair = <<"u1", "m1">>
    /\ DOMAIN library = {<<"u1", "m1">>}
    /\ library[<<"u1", "m1">>].CurrentChapter = 20
    /\ library[<<"u1", "m1">>].UpdatedAt = 1
    /\ library[<<"u1", "m1">>].StartedAt = 0


\* what AddToLibrary, RemoveFromLibrary and GetProgress do apart from the row
\* an AddToLibrary leaves: the library has one row per pair by construction
\* of the table (PRIMARY KEY (user_id, manga_id)); an add touches no other
\* pair; a remove of a stored pair returns no error and removes that pair
\* only; a remove of an absent pair returns ErrProgressNotFound and changes
\* nothing; GetProgress returns the stored row, or ErrProgressNotFound for an
\* absent pair
LibraryCommon ==
    /\ lret'.op = "AddToLibrary" =>
          /\ lret'.err = "nil"
          /\ DOMAIN library' = DOMAIN library \cup {lret'.pair}
          /\ \A q \in DOMAIN library \ {lret'.pair} : library'[q] = library[q]
    /\ lret'.op = "RemoveFromLibrary" =>
          /\ lret'.pair \notin DOMAIN library'
          /\ DOMAIN library' = DOMAIN library \ {lret'.pair}
          /\ \A q \in DOMAIN library' : library'[q] = library[q]
          /\ lret'.err = IF lret'.pair \in DOMAIN library THEN "nil"
                         ELSE "ErrProgressNotFound"
    /\ lret'.op = "GetProgress" =>
          IF lret'.pair \in DOMAIN library
          THEN lret'.err = "nil" /\ lret'.row = library[lret'.pair]
          ELSE lret'.err = "ErrProgressNotFound"

\* C28 as stated: after AddToLibrary the row of the pair is the added entry,
\* also when the pair was in the library (the add replaces the row).
C28_AddReplaces ==
    [][rnow' = rnow =>
          /\ LibraryCommon
          /\ lret'.op = "AddToLibrary" => library'[lret'.pair] = lret'.row]_vars

\* C28 amended: after AddToLibrary the row of the pair has the chapter, the
\* status, the rating and the updated_at of the added entry; its started_at
\* is that of the added entry when the pair was not in the library and is the
\* stored one when it was.  The rest as stated.
C28_AddUpserts ==
    [][rnow' = rnow =>
          /\ LibraryCommon
          /\ lret'.op = "AddToLibrary" =>
                library'[lret'.pair] =
                   [lret'.row EXCEPT !.StartedAt =
                       IF lret'.pair \in DOMAIN library
                       THEN library[lret'.pair].StartedAt
                       ELSE lret'.row.StartedAt]]_vars

\* a pair added at time 0 has been added again at time 1: its row has the
\* chapter and the updated_at of the second add and the started_at of the
\* first
C28_Witness ==
    /\ lret.op = "AddToLibrary"
    /\ lret.row.StartedAt = 1
    /\ lret.pair \in DOMAIN library
    /\ library[lret.pair].StartedAt = 0
    /\ library[lret.pair].UpdatedAt = 1
    /\ library[lret.pair].CurrentChapter = lret.row.CurrentChapter


\* C29: under every interleaving of broadcasts, joins, leaves and history
\* replay the process never panics: no Send channel is closed twice and no
\* send is attempted on a closed Send channel.
C29_NoChannelPanic ==
    panicked \notin {"close of closed channel", "send on closed channel"}


\* C30: the handler of a datagram parses the bytes of that datagram: what it
\* does after parsing (dispatch to register, unregister or ping with that
\* message and the sender's address, or return) is what the bytes it was
\* started for call for, also when the listener has received further
\* datagrams in the meantime.
C30_HandlerParsesOwnDatagram ==
    [][\A h \in Handlers :
          (uh[h].pc = "parse" /\ uh'[h].pc # "parse") =>
             uh'[h] = IF uh[h].own.valid
                         /\ uh[h].own.type \in {"register", "unregister", "ping"}
                      THEN [uh[h] EXCEPT !.pc = uh[h].own.type,
                                         !.own = NoDatagram,
                                         !.msg = uh[h].own]
                      ELSE FreeHandler]_vars

(***************************************************************************)
(* Further properties of the stream listener.                              *)
(***************************************************************************)
\* C31: a dispatch write in progress does not delay the registry: whenever the
\* dispatcher is about to write, or is writing, to an open connection (the
\* write may stall until the write deadline), a handler that has finished the
\* handshake can register its connection at once and a handler whose read has
\* failed can remove its entry at once.
C31_RegistryNotDelayed ==
    \A k \in todo :
        (dispPc = "write" /\ ~connClosed[clients[k].Conn]) =>
            \A c \in Conns :
                /\ pc[c] = "register" => ENABLED Register(c)
                /\ pc[c] = "cleanup" => ENABLED Cleanup(c)

\* Scheduling of the stream listener.  Every goroutine that can take a step
\* takes one; a blocking read returns, with a frame or, at the latest at its
\* read deadline, with an error; a write returns at the latest at the write
\* deadline; sync.RWMutex does not starve a task waiting in Lock.  Nothing is
\* assumed of the peers, the producers and the clock.
HandlerStep(c) ==
    \/ ReadAuthError(c)
    \/ \E f \in AuthFrames : ReadAuth(c, f)
    \/ Register(c)
    \/ LoopSelect(c)
    \/ \E t \in {"heartbeat", "other"} : ReadFrame(c, t)
    \/ ReadError(c)
    \/ Cleanup(c)

DispatcherStep ==
    \/ DispReceive
    \/ BeginPass
    \/ \E u \in Users, n \in 0..MaxNow, o \in {"ok", "fail", "timeout"} :
          WriteOne(ClientID(u, n), o)
    \/ EndPass

HandlerFairness(c) == SF_vars(HandlerStep(c))

DispatcherFairness ==
    /\ WF_vars(DispatcherStep)
    /\ WF_vars(BridgeTake \/ BridgePut)

SpecLive ==
    Spec /\ DispatcherFairness /\ \A c \in Conns : HandlerFairness(c)

\* C32: a failed dispatch write is surfaced to the read loop: once a write of
\* a pass to a connection has failed or run into the deadline, the connection
\* is eventually out of the registry, whatever its peer does.
C32_WriteFailureEvicts ==
    \A c \in Conns :
        (sent[c] # <<>> /\ sent[c][1] # "ok") ~> (c \notin RegisteredConns)

ShutdownFairness ==
    /\ SF_vars(ShutdownCloseConns \/ ShutdownWait)
    /\ SF_vars(DispShutdown)

\* The listener with Shutdown, for the termination properties: the producers
\* emit MaxLiveEvents updates, and the clock stays at one reading (it only
\* decides the registry keys: two handlers of one account get the same key, so
\* that one of the two connections is out of the reach of Shutdown's range
\* over the registry).
NextShutdownLive ==
    \/ \E p \in Producers, u \in Users, ch \in Chapters :
          nextId <= MaxLiveEvents /\ UpdateProgress(p, u, ch)
    \/ BridgeTake
    \/ BridgePut
    \/ AcceptSelect
    \/ \E c \in Conns : Accept(c)
    \/ AcceptError
    \/ \E c \in Conns : HandlerStep(c)
    \/ DispatcherStep
    \/ ShutdownBegin
    \/ ShutdownCloseConns
    \/ ShutdownWait
    \/ DispShutdown

SpecShutdownLive ==
    /\ Init
    /\ [][NextShutdownLive]_vars
    /\ DispatcherFairness
    /\ ShutdownFairness
    /\ \A c \in Conns : HandlerFairness(c)

\* C38: Shutdown always completes: once the shutdown channel is closed,
\* Shutdown returns; every connection handler alive then or started later ends
\* (also one waiting for its handshake and one that registers after Shutdown
\* has closed the registered connections); the dispatcher ends, a pass in
\* flight included.
C38_ShutdownCompletes ==
    shutdown ~> ( /\ shutPc = "done"
                  /\ dispPc = "done"
                  /\ \A c \in Conns : pc[c] \in {"new", "done"} )

\* Shutdown has returned after a dispatch pass; one connection never sent its
\* handshake and its handler has ended on the read error, another registered
\* and its handler has ended on the closed shutdown channel
C38_Witness ==
    /\ shutPc = "done"
    /\ dispPc = "done"
    /\ lastId = 1
    /\ \E c, d \in Conns :
          /\ authFrame[c] = ErrFrame /\ pc[c] = "done"
          /\ d \in RegisteredConns /\ pc[d] = "done"

(***************************************************************************)
(* Further properties of the topic hub.                                    *)
(***************************************************************************)
\* any step of broadcastToRoom run by task t
BroadcastStep(t) ==
    \/ BroadcastLookup(t)
    \/ BroadcastHistory(t)
    \/ BroadcastRLock(t)
    \/ \E c \in Members : BroadcastSend(t, c)
    \/ \E c \in Members : BroadcastSkip(t, c)
    \/ BroadcastDrop(t)
    \/ BroadcastMapRace(t)
    \/ BroadcastEnd(t)

\* any step of the goroutine of Hub.Run
RunStep ==
    \/ \E c \in Members : RunRegister(c)
    \/ AddLookup
    \/ AddInsert
    \/ AddHistCopy
    \/ AddHistSend
    \/ \E c \in Members : RunUnregister(c)
    \/ RemLookup
    \/ RemDelete
    \/ RemCheck
    \/ BroadcastStep(HubTask)

\* Scheduling of the hub.  Run and a receive loop inside broadcastToRoom take
\* their next step, also one that waits for hub.mu or room.mu (sync.RWMutex
\* starves nobody); ReadMessage returns an error once the connection is
\* closed; writePump writes what is in its channel (each write ends within
\* writeWait) and returns once the channel is closed and empty.  Nothing is
\* assumed of the peers: a peer may stay silent and connected for ever.
HubFairness ==
    /\ SF_vars(RunStep)
    /\ \A c \in Members :
          /\ SF_vars(BroadcastStep(c))
          /\ WF_vars(wsClosed[c] /\ ReadMessageError(c))
          /\ WF_vars(\E ok \in BOOLEAN : WriteFrame(c, ok))
          /\ WF_vars(send[c].closed /\ WritePumpReturn(c))

SpecHubLive == SpecHub /\ HubFairness

\* C34: when the receive loop of a member has ended, eventually the member is
\* in no room's member set, its Send channel is closed and its writePump has
\* returned, whether it left by itself or had been dropped as a slow consumer.
C34_LeaveCleansUp ==
    \A c \in Members :
        (rpPc[c] \in {"unregister", "done"})
            ~> ( /\ \A r \in 1..Len(roomObj) : c \notin roomObj[r].Clients
                 /\ send[c].closed
                 /\ wpPc[c] = "done" )

\* C39: the hub never deadlocks: a client blocked in ServeWs on hub.register
\* and a receive loop blocked on hub.unregister are eventually received by
\* Run; Run, once it has taken a request, finishes it (it gets hub.mu and
\* room.mu) and is back at its select; and a receive loop inside
\* broadcastToRoom gets the locks and returns to its read.
C39_HubNoDeadlock ==
    /\ \A c \in Members : (swPc[c] = "register") ~> (swPc[c] = "started")
    /\ \A c \in Members : (rpPc[c] = "unregister") ~> (rpPc[c] = "done")
    /\ (hubPc # "idle") ~> (hubPc = "idle")
    /\ \A c \in Members : (rpPc[c] = "bcast") ~> (rpPc[c] # "bcast")

\* C40: only a member of the room broadcasts to it: whenever the receive loop
\* of a client appends its chat message to the history of a room, or places
\* it on a queue of the room's fan-out, the client is in the member set of
\* that room; in particular not after it was dropped as a slow consumer.
C40_AuthorIsMember ==
    [][\A c \in Members :
          ( \/ (bc[c].pc = "history" /\ bc'[c].pc = "rlock")
            \/ (bc[c].pc = "iter" /\ bc'[c] # bc[c] /\ enq' # enq) )
              => c \in roomObj[bc[c].room].Clients]_vars

(***************************************************************************)
(* Further properties of the datagram listener.                            *)
(***************************************************************************)
\* the handlers that store an endpoint in this step
Registering ==
    {h \in Handlers : uh[h].pc = "register" /\ uh'[h].pc = "reply"}

\* C35 as stated: when a register datagram is processed, each of the two
\* known flags the datagram did not supply is stored as true, and the
\* confirmation echoes exactly the stored preferences.
C35_MissingFlagsDefaultTrue ==
    [][\A h \in Registering :
          /\ \A k \in PrefKeys :
                uh[h].msg.preferences[k] = "missing"
                    => uclients'[uh[h].addr].Preferences[k] = "true"
          /\ uh'[h].reply.preferences = uclients'[uh[h].addr].Preferences]_vars

\* C35 amended: a flag the datagram did not supply is stored as true when the
\* datagram carries no preferences object, and is left out of the stored
\* preferences when it carries one; a boolean flag it supplied is stored as
\* given; the confirmation echoes exactly the stored preferences.
C35_RegisterPreferences ==
    [][\A h \in Registering :
          /\ \A k \in PrefKeys :
                /\ uh[h].msg.preferences[k] = "missing"
                      => uclients'[uh[h].addr].Preferences[k] =
                            IF uh[h].msg.preferences.given THEN "unset" ELSE "true"
                /\ uh[h].msg.preferences[k] \in {"true", "false"}
                      => uclients'[uh[h].addr].Preferences[k] =
                            uh[h].msg.preferences[k]
          /\ uh'[h].reply.status = "registered"
          /\ uh'[h].reply.preferences = uclients'[uh[h].addr].Preferences]_vars

\* a register without a preferences object is stored at a1 with both flags
\* true, one with only chapter_releases (false) at a2 with system_updates left
\* out, and the handler of the latter holds the confirmation that echoes it
C35_Witness ==
    /\ DOMAIN uclients = {"a1", "a2"}
    /\ uclients["a1"].Preferences = [k \in PrefKeys |-> "true"]
    /\ uclients["a2"].Preferences =
          [chapter_releases |-> "false", system_updates |-> "unset"]
    /\ \E h \in Handlers :
          /\ uh[h].pc = "reply"
          /\ uh[h].addr = "a2"
          /\ uh[h].reply = Reply("registered", uclients["a2"].Preferences)

\* the handlers that in this step finish the processing of a datagram that
\* has a string type other than "unregister": a message of a type the switch
\* does not know is dropped, a register is stored or turned away, a ping
\* refreshes
ProcessingTyped ==
    {h \in Handlers :
        \/ /\ uh[h].pc = "parse" /\ uh'[h].pc = "free"
           /\ uh[h].own = buffer
           /\ buffer.valid
           /\ buffer.type \notin {"", "register", "unregister", "ping"}
        \/ uh[h].pc = "register" /\ uh'[h].pc # "register"
        \/ uh[h].pc = "ping" /\ uh'[h].pc # "ping"}

\* C36: every datagram processed from a registered address, other than an
\* unregister, refreshes the endpoint: after the step the entry of the address
\* has LastSeen equal to the current time, whatever the type of the datagram.
C36_EveryMessageRefreshes ==
    [][\A h \in ProcessingTyped :
          uh[h].addr \in DOMAIN uclients
              => /\ uh[h].addr \in DOMAIN uclients'
                 /\ uclients'[uh[h].addr].LastSeen = unow]_vars

\* C37: a datagram that is not JSON, or has no string type, is dropped: the
\* handler started for it ends at the parse, with no reply to send and with
\* the registry as it was; and the receive loop is not held up by it: while
\* the senders have datagrams left, the next one can be received.
C37_MalformedDropped ==
    [][\A h \in Handlers :
          ( /\ uh[h].pc = "parse"
            /\ (~uh[h].own.valid \/ uh[h].own.type = "") )
              => /\ uh'[h].pc # "parse" => uh'[h] = FreeHandler /\ uclients' = uclients
                 /\ nDatagrams < MaxDatagrams
                       => ENABLED (\E a \in Addrs, d \in Datagrams : Receive(a, d))]_vars

=============================================================================
